---- MODULE Spec2Model ----
(***************************************************************************)
(* Record store and similarity search of dude-claude-plugin (src/db.js,   *)
(* src/server.js).  The relational tables project / record and the vec0   *)
(* virtual table record_embedding are the state; every exported function  *)
(* of db.js is a sequence of SQL statements, modelled statement by        *)
(* statement (Steps) and run to completion for the atomic handlers.       *)
(*                                                                         *)
(* Cosine distances and similarities are fixed-point numbers in units of  *)
(* 1/1000: distance 150 is 0.15, similarity 300 is 0.3, the boost is 100. *)
(***************************************************************************)
EXTENDS Integers, Sequences, FiniteSets, TLC

VARIABLES
  project,           \* table project: id -> [name, created_at, updated_at]
  record,            \* table record: id -> row
  record_embedding,  \* vec0 table record_embedding: record_id -> embedding
  sqlite_sequence,   \* AUTOINCREMENT counter of table record
  currentProject,    \* module-level currentProject of db.js: [id, name]
  clock,             \* the wall clock read by new Date()
  frame,             \* the call in flight (statement-level runs), or Idle
  lastCall,          \* the last call that ended: [op, a, now, ret]
  nwrites,           \* number of writing calls made so far (bounded by MaxWrites)
  db,                \* module-level db of db.js: "null" or "open"
  schema_version,    \* table schema_version: the set of its rows
  schema,            \* schema objects in the database file: <<version, statement>> pairs
  starts,            \* number of processes started so far (bounded by MaxStarts)
  applied            \* versions whose migration committed, in order, over all processes

vars == <<project, record, record_embedding, sqlite_sequence, currentProject,
          clock, frame, lastCall, nwrites, db, schema_version, schema, starts, applied>>

\* what startup (initDb, runMigrations) writes besides the tables
startup == <<db, schema_version, schema, starts, applied>>

tables == <<project, record, record_embedding, sqlite_sequence>>

(***************************************************************************)
(* Bounds of the model.                                                    *)
(***************************************************************************)
MaxWrites == 2     \* writing calls per run
MaxLimit == 2      \* largest explicit limit given to a search

(***************************************************************************)
(* Program constants.                                                      *)
(***************************************************************************)
DedupK == 5              \* "k = 5" of the dedup query
DedupThreshold == 150    \* candidates[0].distance <= 0.15
OverFetch == 3           \* limit * 3
DefaultLimit == 5        \* limit = 5
Boost == 100             \* similarity + 0.1
SimilarityCap == 1000    \* Math.min(1.0, ...)
MinSimilarity == 300     \* r.similarity >= 0.3
One == 1000              \* the 1 of "1 - row.distance"

Kinds == {"issue", "spec", "arch", "update"}
Statuses == {"open", "resolved", "archived"}

(***************************************************************************)
(* Optional arguments: <<>> is undefined, <<v>> is the value v.            *)
(***************************************************************************)
Undefined == <<>>
Some(v) == <<v>>
Opt(S) == {Undefined} \cup {Some(v) : v \in S}
IsDefined(o) == o # Undefined
\* a ?? b
Coalesce(o, d) == IF IsDefined(o) THEN o[1] ELSE d

(***************************************************************************)
(* Embeddings.  Ten unit vectors of one plane, named by a letter; the      *)
(* table holds their pairwise cosine distances (1 - cos of the angle       *)
(* between them) in units of 1/1000, rounded.  Seen from a, the others lie *)
(* at 0.1, 0.15, 0.151, 0.7, 0.701, 0.75, 0.8, 0.801 and 2.0.              *)
(***************************************************************************)
Vec == {"a", "b", "c", "e", "f", "g", "h", "m", "n", "z"}

DistTable == [
  a |-> [a |-> 0, b |-> 100, c |-> 150, e |-> 151, f |-> 700, g |-> 701, h |-> 750, m |-> 800, n |-> 801, z |-> 2000],
  b |-> [a |-> 100, b |-> 0, c |-> 5, e |-> 6, f |-> 314, g |-> 315, h |-> 353, m |-> 393, n |-> 394, z |-> 1900],
  c |-> [a |-> 150, b |-> 5, c |-> 0, e |-> 0, f |-> 242, g |-> 243, h |-> 277, m |-> 314, n |-> 315, z |-> 1850],
  e |-> [a |-> 151, b |-> 6, c |-> 0, e |-> 0, f |-> 241, g |-> 242, h |-> 276, m |-> 312, n |-> 313, z |-> 1849],
  f |-> [a |-> 700, b |-> 314, c |-> 242, e |-> 241, f |-> 0, g |-> 0, h |-> 1, m |-> 5, n |-> 5, z |-> 1300],
  g |-> [a |-> 701, b |-> 315, c |-> 243, e |-> 242, f |-> 0, g |-> 0, h |-> 1, m |-> 5, n |-> 5, z |-> 1299],
  h |-> [a |-> 750, b |-> 353, c |-> 277, e |-> 276, f |-> 1, g |-> 1, h |-> 0, m |-> 1, n |-> 1, z |-> 1250],
  m |-> [a |-> 800, b |-> 393, c |-> 314, e |-> 312, f |-> 5, g |-> 5, h |-> 1, m |-> 0, n |-> 0, z |-> 1200],
  n |-> [a |-> 801, b |-> 394, c |-> 315, e |-> 313, f |-> 5, g |-> 5, h |-> 1, m |-> 0, n |-> 0, z |-> 1199],
  z |-> [a |-> 2000, b |-> 1900, c |-> 1850, e |-> 1849, f |-> 1300, g |-> 1299, h |-> 1250, m |-> 1200, n |-> 1199, z |-> 0]]

\* re.distance of a vec0 MATCH query: cosine distance of a stored vector to the query
Dist(u, v) == DistTable[u][v]

(***************************************************************************)
(* The database as a value, so that statements are functions on it.        *)
(***************************************************************************)
DB == [project |-> project, record |-> record,
       record_embedding |-> record_embedding, seq |-> sqlite_sequence]

Remove(f, k) == [x \in DOMAIN f \ {k} |-> f[x]]
Put(f, k, v) == [x \in DOMAIN f \cup {k} |-> IF x = k THEN v ELSE f[x]]

\* RowConstraintsOk with foreign_keys off
RowConstraintsOk_NoForeignKey(D, row) ==
  /\ row.kind \in Kinds
  /\ row.status \in Statuses

\* CHECK (kind IN (...)), CHECK (status IN (...)) and the REFERENCES project(id)
\* of table record; foreign_keys = ON
RowConstraintsOk(D, row) ==
  /\ row.kind \in Kinds
  /\ row.status \in Statuses
  /\ row.project_id \in DOMAIN D.project

\* A statement's outcome: the database after it and whether it threw.
Ok(D) == [db |-> D, threw |-> FALSE]
Threw(D) == [db |-> D, threw |-> TRUE]

\* UPDATE record SET kind = ?, title = ?, body = ?, status = ?, updated_at = ? WHERE id = ?
SqlUpdateById(D, kind, title, body, status, now, id) ==
  IF id \notin DOMAIN D.record THEN Ok(D)
  ELSE LET row == [D.record[id] EXCEPT !.kind = kind, !.title = title, !.body = body,
                                        !.status = status, !.updated_at = now]
       IN IF RowConstraintsOk(D, row)
          THEN Ok([D EXCEPT !.record = Put(D.record, id, row)])
          ELSE Threw(D)

\* UPDATE record SET title = ?, body = ?, status = ?, updated_at = ? WHERE id = ?
SqlUpdateMerge(D, title, body, status, now, id) ==
  IF id \notin DOMAIN D.record THEN Ok(D)
  ELSE LET row == [D.record[id] EXCEPT !.title = title, !.body = body,
                                        !.status = status, !.updated_at = now]
       IN IF RowConstraintsOk(D, row)
          THEN Ok([D EXCEPT !.record = Put(D.record, id, row)])
          ELSE Threw(D)

\* DELETE FROM record_embedding WHERE record_id = ?
SqlDeleteEmbedding(D, id) ==
  Ok([D EXCEPT !.record_embedding = Remove(D.record_embedding, id)])

\* INSERT INTO record_embedding (record_id, embedding) VALUES (?, ?)
\* record_id is the PRIMARY KEY of the vec0 table: a second row for a key throws.
SqlInsertEmbedding(D, id, emb) ==
  IF id \in DOMAIN D.record_embedding THEN Threw(D)
  ELSE Ok([D EXCEPT !.record_embedding = Put(D.record_embedding, id, emb)])

\* NextRowid of a table without AUTOINCREMENT: one more than the largest stored
NextRowid_MaxStored(D) ==
  IF DOMAIN D.record = {} THEN 1
  ELSE 1 + CHOOSE i \in DOMAIN D.record : \A j \in DOMAIN D.record : j <= i

\* The rowid an AUTOINCREMENT table gives its next row.
NextRowid(D) == D.seq + 1

\* INSERT INTO record (project_id, kind, title, body, status, created_at, updated_at)
SqlInsertRecord(D, proj, kind, title, body, status, now) ==
  LET id == NextRowid(D)
      row == [id |-> id, project_id |-> proj, kind |-> kind, title |-> title,
              body |-> body, status |-> status, created_at |-> now, updated_at |-> now]
  IN IF RowConstraintsOk(D, row)
     THEN Ok([D EXCEPT !.record = Put(D.record, id, row), !.seq = id])
     ELSE Threw(D)

\* DELETE FROM record WHERE id = ?
SqlDeleteRecord(D, id) == Ok([D EXCEPT !.record = Remove(D.record, id)])

\* getRecord(id): the record row joined with its project's name, or null (<<>>)
getRecord(D, id) ==
  IF id \in DOMAIN D.record /\ D.record[id].project_id \in DOMAIN D.project
  THEN << [id |-> id,
           project_id |-> D.record[id].project_id,
           kind |-> D.record[id].kind,
           title |-> D.record[id].title,
           body |-> D.record[id].body,
           status |-> D.record[id].status,
           created_at |-> D.record[id].created_at,
           updated_at |-> D.record[id].updated_at,
           project |-> D.project[D.record[id].project_id].name] >>
  ELSE <<>>


(***************************************************************************)
(* vec0 KNN.  "embedding MATCH q AND k = k" yields the k stored vectors    *)
(* nearest to q, taken over the whole virtual table; the conditions on the *)
(* joined tables are applied to those k rows afterwards.  Which of several *)
(* equidistant vectors falls inside the k is not specified: every choice   *)
(* is an outcome.                                                          *)
(***************************************************************************)
KnnSets(E, q, k) ==
  LET keys == DOMAIN E
      d(x) == Dist(E[x], q)
  IN IF k = 0 THEN {{}}
     ELSE IF Cardinality(keys) <= k THEN {keys}
     ELSE LET cut == CHOOSE c \in {d(x) : x \in keys} :
                       /\ Cardinality({x \in keys : d(x) < c}) < k
                       /\ Cardinality({x \in keys : d(x) <= c}) >= k
              must == {x \in keys : d(x) < cut}
              tie == {x \in keys : d(x) = cut}
          IN {must \cup T : T \in {U \in SUBSET tie :
                                     Cardinality(U) = k - Cardinality(must)}}

\* DedupCandidates without the condition on r.kind
DedupCandidates_AnyKind(D, emb, proj, kind) ==
  UNION {
    LET rows == {id \in S : /\ id \in DOMAIN D.record
                            /\ D.record[id].project_id = proj}
        d(id) == Dist(D.record_embedding[id], emb)
    IN IF rows = {} THEN {<<>>}
       ELSE {<<[record_id |-> id, distance |-> d(id)]>> :
               id \in {x \in rows : \A o \in rows : d(x) <= d(o)}}
    : S \in KnnSets(D.record_embedding, emb, DedupK)}

\* The dedup query of upsertRecord: the possible values of `candidates`
\* (ORDER BY re.distance LIMIT 1 over the joined, filtered KNN rows).
DedupCandidates(D, emb, proj, kind) ==
  UNION {
    LET rows == {id \in S : /\ id \in DOMAIN D.record
                            /\ D.record[id].project_id = proj
                            /\ D.record[id].kind = kind}
        d(id) == Dist(D.record_embedding[id], emb)
    IN IF rows = {} THEN {<<>>}
       ELSE {<<[record_id |-> id, distance |-> d(id)]>> :
               id \in {x \in rows : \A o \in rows : d(x) <= d(o)}}
    : S \in KnnSets(D.record_embedding, emb, DedupK)}

(***************************************************************************)
(* Calls in flight.  A frame is the position of one call of db.js between  *)
(* its SQL statements; Steps gives the frames one statement later.         *)
(***************************************************************************)
NoRet == [threw |-> FALSE, rows |-> <<>>, changed |-> FALSE]
Idle == [op |-> "none", pc |-> "idle", a |-> <<>>, now |-> 0, proj |-> 0,
         path |-> "", target |-> 0, ret |-> NoRet]

\* if (id): undefined and 0 are falsy
Truthy(id) == IsDefined(id) /\ id[1] # 0

\* UpsertStart with the branch on id lost: every call takes the dedup path
UpsertStart_NoIdBranch(a, now, cur) ==
  [op |-> "upsertRecord",
   pc |-> "dedup",
   a |-> [a EXCEPT !.body = Some(Coalesce(a.body, "")),
                   !.status = Some(Coalesce(a.status, "open"))],
   now |-> now,
   proj |-> Coalesce(a.projectId, cur.id),
   path |-> "",
   target |-> 0,
   ret |-> NoRet]

\* upsertRecord, lines 211-216: defaults, proj, now and the branch on id
UpsertStart(a, now, cur) ==
  [op |-> "upsertRecord",
   pc |-> IF Truthy(a.id) THEN "update" ELSE "dedup",
   a |-> [a EXCEPT !.body = Some(Coalesce(a.body, "")),
                   !.status = Some(Coalesce(a.status, "open"))],
   now |-> now,
   proj |-> Coalesce(a.projectId, cur.id),
   path |-> IF Truthy(a.id) THEN "update" ELSE "",
   target |-> IF Truthy(a.id) THEN a.id[1] ELSE 0,
   ret |-> NoRet]

\* deleteRecord, line 157
DeleteStart(id) ==
  [op |-> "deleteRecord", pc |-> "del_embedding", a |-> [id |-> id], now |-> 0,
   proj |-> 0, path |-> "", target |-> id, ret |-> NoRet]

Conf(D, fr) == [db |-> D, fr |-> fr]
\* an exception leaves the call: nothing after the throwing statement runs
Throw(D, fr) == Conf(D, [fr EXCEPT !.pc = "done", !.ret = [NoRet EXCEPT !.threw = TRUE]])
Goto(r, fr, pc) == IF r.threw THEN Throw(r.db, fr) ELSE Conf(r.db, [fr EXCEPT !.pc = pc])

\* the statements of upsertRecord, lines 216-265
UpsertSteps(D, fr) ==
  LET a == fr.a IN
  CASE fr.pc = "update" ->
         {Goto(SqlUpdateById(D, a.kind, a.title, a.body[1], a.status[1], fr.now, fr.target),
               fr, "delete_embedding")}
    [] fr.pc = "dedup" ->
         {IF Len(c) > 0 /\ c[1].distance <= DedupThreshold
          THEN Conf(D, [fr EXCEPT !.pc = "merge", !.path = "merge", !.target = c[1].record_id])
          ELSE Conf(D, [fr EXCEPT !.pc = "insert", !.path = "insert"])
          : c \in DedupCandidates(D, a.embedding, fr.proj, a.kind)}
    [] fr.pc = "merge" ->
         {Goto(SqlUpdateMerge(D, a.title, a.body[1], a.status[1], fr.now, fr.target),
               fr, "delete_embedding")}
    [] fr.pc = "delete_embedding" ->
         {Goto(SqlDeleteEmbedding(D, fr.target), fr, "insert_embedding")}
    [] fr.pc = "insert" ->
         {Goto(SqlInsertRecord(D, fr.proj, a.kind, a.title, a.body[1], a.status[1], fr.now),
               [fr EXCEPT !.target = NextRowid(D)], "insert_embedding")}
    [] fr.pc = "insert_embedding" ->
         {Goto(SqlInsertEmbedding(D, fr.target, a.embedding), fr, "return")}
    [] fr.pc = "return" ->
         {Conf(D, [fr EXCEPT !.pc = "done", !.ret = [NoRet EXCEPT !.rows = getRecord(D, fr.target)]])}

\* DeleteSteps with the two DELETE statements in the other order
DeleteSteps_RecordFirst(D, fr) ==
  CASE fr.pc = "del_embedding" ->
         {Conf(SqlDeleteRecord(D, fr.target).db,
               [fr EXCEPT !.pc = "del_record",
                          !.ret = [NoRet EXCEPT !.changed = fr.target \in DOMAIN D.record]])}
    [] fr.pc = "del_record" ->
         {Conf(SqlDeleteEmbedding(D, fr.target).db, [fr EXCEPT !.pc = "done"])}

\* the statements of deleteRecord, lines 157-162
DeleteSteps(D, fr) ==
  CASE fr.pc = "del_embedding" ->
         {Goto(SqlDeleteEmbedding(D, fr.target), fr, "del_record")}
    [] fr.pc = "del_record" ->
         {Conf(SqlDeleteRecord(D, fr.target).db,
               [fr EXCEPT !.pc = "done",
                          !.ret = [NoRet EXCEPT !.changed = fr.target \in DOMAIN D.record]])}

Steps(D, fr) ==
  CASE fr.op = "upsertRecord" -> UpsertSteps(D, fr)
    [] fr.op = "deleteRecord" -> DeleteSteps(D, fr)

\* a call run to its end: JavaScript runs a synchronous function to completion
RECURSIVE Run(_, _)
Run(D, fr) ==
  IF fr.pc = "done" THEN {Conf(D, fr)}
  ELSE UNION {Run(c.db, c.fr) : c \in Steps(D, fr)}

\* upsertRecord(args, embedding): the possible outcomes of the whole call
upsertRecord(D, a, now, cur) == Run(D, UpsertStart(a, now, cur))

\* deleteRecord(id)
deleteRecord(D, id) == Run(D, DeleteStart(id))


(***************************************************************************)
(* searchRecords, lines 164-209.                                           *)
(***************************************************************************)
\* the sequences that hold each element of S once, in ascending d, equal d in every order
RECURSIVE ByDistance(_, _)
ByDistance(S, d) ==
  IF S = {} THEN {<<>>}
  ELSE UNION {{<<x>> \o t : t \in ByDistance(S \ {x}, d)} :
                x \in {y \in S : \A o \in S : d[y] <= d[o]}}

\* if (kind && kind !== 'all')
KindGiven(kind) == IsDefined(kind) /\ kind[1] # "" /\ kind[1] # "all"

\* one row of the SELECT of lines 170-181
SearchRow(D, id, q) ==
  [record_id |-> id,
   distance |-> Dist(D.record_embedding[id], q),
   id |-> id,
   kind |-> D.record[id].kind,
   title |-> D.record[id].title,
   body |-> D.record[id].body,
   status |-> D.record[id].status,
   created_at |-> D.record[id].created_at,
   updated_at |-> D.record[id].updated_at,
   project |-> D.project[D.record[id].project_id].name]

\* d.prepare(sql).all(...params): the possible row lists, ORDER BY re.distance
SearchRows(D, q, k, kind) ==
  UNION {
    LET joined == {id \in S : /\ id \in DOMAIN D.record
                              /\ D.record[id].project_id \in DOMAIN D.project
                              /\ (KindGiven(kind) => D.record[id].kind = kind[1])}
        d == [id \in joined |-> Dist(D.record_embedding[id], q)]
    IN {[i \in 1..Len(o) |-> SearchRow(D, o[i], q)] : o \in ByDistance(joined, d)}
    : S \in KnnSets(D.record_embedding, q, k)}

Min(x, y) == IF x <= y THEN x ELSE y

\* Similarity with the cap lost
Similarity_NoCap(row, cur) ==
  IF row.project = cur.name
  THEN (One - row.distance) + Boost
  ELSE One - row.distance

\* lines 194-201: similarity of one row, boosted for the current project
Similarity(row, cur) ==
  IF row.project = cur.name
  THEN Min(SimilarityCap, (One - row.distance) + Boost)
  ELSE One - row.distance

WithSimilarity(rows, cur) ==
  [i \in 1..Len(rows) |->
     [record_id |-> rows[i].record_id, distance |-> rows[i].distance,
      id |-> rows[i].id, kind |-> rows[i].kind, title |-> rows[i].title,
      body |-> rows[i].body, status |-> rows[i].status,
      created_at |-> rows[i].created_at, updated_at |-> rows[i].updated_at,
      project |-> rows[i].project, similarity |-> Similarity(rows[i], cur)]]

\* PassesThreshold with an exclusive bound
PassesThreshold_Exclusive(r) == r.similarity > MinSimilarity

\* .filter(r => r.similarity >= 0.3)
PassesThreshold(r) == r.similarity >= MinSimilarity

\* .sort((a, b) => b.similarity - a.similarity): Array.prototype.sort is stable
RECURSIVE InsertDesc(_, _)
InsertDesc(s, r) ==
  IF s = <<>> THEN <<r>>
  ELSE IF Head(s).similarity >= r.similarity THEN <<Head(s)>> \o InsertDesc(Tail(s), r)
  ELSE <<r>> \o s

RECURSIVE SortDesc(_)
SortDesc(s) ==
  IF s = <<>> THEN <<>>
  ELSE InsertDesc(SortDesc(SubSeq(s, 1, Len(s) - 1)), s[Len(s)])

\* .slice(0, limit)
Slice(s, limit) == SubSeq(s, 1, Min(limit, Len(s)))

\* .map(({ record_id, distance, ...rest }) => rest)
Strip(s) ==
  [i \in 1..Len(s) |->
     [id |-> s[i].id, kind |-> s[i].kind, title |-> s[i].title, body |-> s[i].body,
      status |-> s[i].status, created_at |-> s[i].created_at,
      updated_at |-> s[i].updated_at, project |-> s[i].project,
      similarity |-> s[i].similarity]]

\* Rank cutting to limit before the sort
Rank_SliceFirst(rows, cur, limit) ==
  Strip(SortDesc(Slice(SelectSeq(WithSimilarity(rows, cur), PassesThreshold), limit)))

\* lines 193-208 on one fetched row list
Rank(rows, cur, limit) ==
  Strip(Slice(SortDesc(SelectSeq(WithSimilarity(rows, cur), PassesThreshold)), limit))

\* searchRecords boosting the target project instead of the current one
searchRecords_BoostsTarget(D, cur, a) ==
  LET limit == Coalesce(a.limit, DefaultLimit)
      targetProjectId == Coalesce(a.projectId, cur.id)
      target == [id |-> targetProjectId, name |-> D.project[targetProjectId].name]
  IN {Rank(rows, target, limit) :
        rows \in SearchRows(D, a.embedding, limit * OverFetch, a.kind)}

\* searchRecords(embedding, { kind, projectId, limit = 5 }): the possible results
searchRecords(D, cur, a) ==
  LET limit == Coalesce(a.limit, DefaultLimit)
      targetProjectId == Coalesce(a.projectId, cur.id)
  IN {Rank(rows, cur, limit) : rows \in SearchRows(D, a.embedding, limit * OverFetch, a.kind)}


(***************************************************************************)
(* The embedder (src/embed.js): a deterministic function from text to a    *)
(* vector.  Only its interface is known; three texts and their vectors.    *)
(***************************************************************************)
Texts == {"t1", "t2 b2", "far"}
embed(text) ==
  CASE text = "t1" -> "a"
    [] text = "t2 b2" -> "b"
    [] text = "far" -> "f"

\* `${title} ${body || ''}`.trim()  (titles and bodies carry no outer blanks)
RecordText(title, body) ==
  IF Coalesce(body, "") = "" THEN title ELSE title \o " " \o body[1]

(***************************************************************************)
(* MCP tool handlers of server.js.  A tool result is isError plus the rows *)
(* that JSON.stringify serialises (null is the empty list of rows).        *)
(***************************************************************************)
\* search, lines 34-45: project is accepted and not passed on
SearchTool(D, cur, p) ==
  searchRecords(D, cur, [embedding |-> embed(p.query), kind |-> p.kind,
                         projectId |-> Undefined, limit |-> p.limit])

\* upsert_record, lines 59-75: the arguments handed to upsertRecord
UpsertToolArgs(p, cur) ==
  [id |-> p.id, projectId |-> Some(cur.id), kind |-> p.kind, title |-> p.title,
   body |-> Some(Coalesce(p.body, "")),
   status |-> Some(Coalesce(p.status, "open")),
   embedding |-> embed(RecordText(p.title, p.body))]


\* upsertProject as INSERT OR REPLACE: a stored row of the name is deleted and a
\* new one inserted
upsertProject_Replace(D, name, now) ==
  LET known == {i \in DOMAIN D.project : D.project[i].name = name}
      top == IF DOMAIN D.project = {} THEN 0
             ELSE CHOOSE i \in DOMAIN D.project : \A j \in DOMAIN D.project : j <= i
      kept == [i \in DOMAIN D.project \ known |-> D.project[i]]
  IN [D EXCEPT !.project =
        Put(kept, top + 1, [name |-> name, created_at |-> now, updated_at |-> now])]

\* upsertProject(d, name), lines 77-83: INSERT ... ON CONFLICT(name) DO UPDATE SET updated_at
upsertProject(D, name, now) ==
  LET known == {i \in DOMAIN D.project : D.project[i].name = name}
      top == IF DOMAIN D.project = {} THEN 0
             ELSE CHOOSE i \in DOMAIN D.project : \A j \in DOMAIN D.project : j <= i
  IN IF known # {}
     THEN [D EXCEPT !.project =
             [i \in DOMAIN D.project |->
                IF i \in known THEN [D.project[i] EXCEPT !.updated_at = now]
                ELSE D.project[i]]]
     ELSE [D EXCEPT !.project =
             Put(D.project, top + 1, [name |-> name, created_at |-> now, updated_at |-> now])]

(***************************************************************************)
(* Stored states a process starts from.  initDb has run: the migrations    *)
(* are applied and the current project ("alpha") is resolved; "beta" is a  *)
(* project of an earlier process.  Every store below is what upsertRecord  *)
(* calls of earlier processes leave behind.                                *)
(***************************************************************************)
SeedProjects ==
  (1 :> [name |-> "alpha", created_at |-> 0, updated_at |-> 0]) @@
  (2 :> [name |-> "beta", created_at |-> 0, updated_at |-> 0])

SeedRow(id, proj, kind, title) ==
  [id |-> id, project_id |-> proj, kind |-> kind, title |-> title, body |-> "",
   status |-> "open", created_at |-> 0, updated_at |-> 0]

Store(recs, embs) ==
  [project |-> SeedProjects, record |-> recs, record_embedding |-> embs,
   seq |-> Cardinality(DOMAIN recs)]

\* nothing stored yet
SeedEmpty == Store(<<>>, <<>>)

\* two close records of one project and kind, and one of another project
SeedSmall ==
  Store(<<SeedRow(1, 1, "issue", "t1"), SeedRow(2, 1, "issue", "t2"),
          SeedRow(3, 2, "issue", "t1")>>,
        <<"a", "b", "a">>)

\* five records of other projects or kinds at vector b, one alpha issue at a
SeedCrowded ==
  Store(<<SeedRow(1, 2, "issue", "t2"), SeedRow(2, 2, "spec", "t2"),
          SeedRow(3, 2, "arch", "t2"), SeedRow(4, 2, "update", "t2"),
          SeedRow(5, 1, "spec", "t2"), SeedRow(6, 1, "issue", "t1")>>,
        <<"b", "b", "b", "b", "b", "a">>)

\* records around the similarity threshold as seen from vector a
SeedRank ==
  Store(<<SeedRow(1, 2, "issue", "t1"), SeedRow(2, 2, "spec", "t1"),
          SeedRow(3, 2, "arch", "t1"), SeedRow(4, 1, "issue", "t1"),
          SeedRow(5, 2, "issue", "t2"), SeedRow(6, 1, "spec", "t1"),
          SeedRow(7, 1, "issue", "t2"), SeedRow(8, 1, "update", "t1")>>,
        <<"g", "h", "g", "h", "f", "m", "a", "n">>)

(***************************************************************************)
(* The registered migrations: the .js files of src/migrations in the order *)
(* of readdirSync(...).sort(), each with the version it exports.  up() of  *)
(* a migration is a list of schema statements; the schema object that      *)
(* statement k of version v creates is <<v, k>>.                           *)
(***************************************************************************)
files ==
  <<[file |-> "001-initial.js", version |-> 1, statements |-> 3],
    [file |-> "002-expand-kinds.js", version |-> 2, statements |-> 5]>>

Versions == {files[i].version : i \in DOMAIN files}

\* the schema objects of a database on which up() of these files has run
SchemaOf(fs) == UNION {{<<files[i].version, k>> : k \in 1..files[i].statements} : i \in fs}

\* no current project: currentProject = null
NoProject == [id |-> 0, name |-> ""]

\* an earlier process has migrated the data directory and this one has finished initDb
Started ==
  /\ db = "open"
  /\ schema_version = Versions
  /\ schema = SchemaOf(DOMAIN files)
  /\ starts = 1
  /\ applied = [i \in DOMAIN files |-> files[i].version]

InitWith(seeds) ==
  /\ Started
  /\ \E D \in seeds :
       /\ project = D.project
       /\ record = D.record
       /\ record_embedding = D.record_embedding
       /\ sqlite_sequence = D.seq
  /\ currentProject = [id |-> 1, name |-> "alpha"]
  /\ clock = 0
  /\ frame = Idle
  /\ lastCall = Idle
  /\ nwrites = 0

Commit(D) ==
  /\ project' = D.project
  /\ record' = D.record
  /\ record_embedding' = D.record_embedding
  /\ sqlite_sequence' = D.seq

\* new Date(): the clock has moved on by at most one tick since the last call
Nows == {clock, clock + 1}

(***************************************************************************)
(* Inputs.                                                                 *)
(***************************************************************************)
\* ids of stored records and one that was never given out
IdInputs == 1..(sqlite_sequence + 1)
KindInputs == {"issue", "spec"}
ProjectIdInputs == {Undefined, Some(2)}
EmbInputs == {"a", "b", "f"}
Payloads ==
  {[title |-> "t1", body |-> Undefined, status |-> Undefined],
   [title |-> "t2", body |-> Some("b2"), status |-> Some("resolved")]}

UpsertArgs ==
  {[id |-> i, projectId |-> pr, kind |-> k, title |-> p.title, body |-> p.body,
    status |-> p.status, embedding |-> e] :
     i \in {Undefined}, pr \in ProjectIdInputs, k \in KindInputs, p \in Payloads,
     e \in EmbInputs}
  \cup
  {[id |-> Some(i), projectId |-> Undefined, kind |-> k, title |-> p.title,
    body |-> p.body, status |-> p.status, embedding |-> e] :
     i \in IdInputs, k \in KindInputs, p \in Payloads, e \in {"a", "b"}}

\* what the schema of the upsert_record tool lets through
UpsertToolInputs ==
  {[id |-> i, kind |-> k, title |-> p.title, body |-> p.body, status |-> p.status] :
     i \in {Undefined} \cup {Some(j) : j \in IdInputs}, k \in KindInputs,
     p \in Payloads}

SearchArgs ==
  {[embedding |-> e, kind |-> k, projectId |-> pr, limit |-> l] :
     e \in {"a", "b"}, k \in Opt({"all", "spec"}), pr \in ProjectIdInputs,
     l \in Opt(1..MaxLimit)}

SearchToolInputs ==
  {[query |-> q, kind |-> k, project |-> pr, limit |-> l] :
     q \in {"t1"}, k \in Opt({"issue"}), pr \in Opt({"*", "beta"}),
     l \in Opt(1..MaxLimit)}

Ended(fr) == [fr EXCEPT !.pc = "idle"]

(***************************************************************************)
(* Whole calls: a handler runs to its end before the next one starts.      *)
(***************************************************************************)
UpsertRecord ==
  /\ frame = Idle
  /\ nwrites < MaxWrites
  /\ \E a \in UpsertArgs, now \in Nows :
       \E c \in upsertRecord(DB, a, now, currentProject) :
         /\ Commit(c.db)
         /\ clock' = now
         /\ lastCall' = Ended(c.fr)
  /\ nwrites' = nwrites + 1
  /\ UNCHANGED <<currentProject, frame, startup>>

UpsertRecordTool ==
  /\ frame = Idle
  /\ nwrites < MaxWrites
  /\ \E p \in UpsertToolInputs, now \in Nows :
       \E c \in upsertRecord(DB, UpsertToolArgs(p, currentProject), now, currentProject) :
         /\ Commit(c.db)
         /\ clock' = now
         /\ lastCall' = [Ended(c.fr) EXCEPT !.op = "upsert_record"]
  /\ nwrites' = nwrites + 1
  /\ UNCHANGED <<currentProject, frame, startup>>

DeleteRecord ==
  /\ frame = Idle
  /\ nwrites < MaxWrites
  /\ \E id \in IdInputs :
       \E c \in deleteRecord(DB, id) :
         /\ Commit(c.db)
         /\ lastCall' = Ended(c.fr)
  /\ nwrites' = nwrites + 1
  /\ UNCHANGED <<currentProject, frame, clock, startup>>

SearchRecords ==
  /\ frame = Idle
  /\ \E a \in SearchArgs :
       \E rows \in searchRecords(DB, currentProject, a) :
         lastCall' = [Idle EXCEPT !.op = "searchRecords", !.a = a,
                                  !.ret = [NoRet EXCEPT !.rows = rows]]
  /\ UNCHANGED <<tables, currentProject, clock, frame, nwrites, startup>>

Search ==
  /\ frame = Idle
  /\ \E p \in SearchToolInputs :
       \E rows \in SearchTool(DB, currentProject, p) :
         lastCall' = [Idle EXCEPT !.op = "search", !.a = p,
                                  !.ret = [NoRet EXCEPT !.rows = rows]]
  /\ UNCHANGED <<tables, currentProject, clock, frame, nwrites, startup>>

(***************************************************************************)
(* The write path, from an empty and from a small store.                   *)
(***************************************************************************)
Init == InitWith({SeedEmpty, SeedSmall})
Next == UpsertRecord \/ UpsertRecordTool \/ DeleteRecord
Spec == Init /\ [][Next]_vars

\* The write path on a store crowded with records of other projects and kinds.
InitCrowded == InitWith({SeedCrowded})
SpecCrowded == InitCrowded /\ [][Next]_vars

\* The read path over a populated store that deletions thin out.
InitSearch == InitWith({SeedRank})
NextSearch == SearchRecords \/ Search \/ DeleteRecord
SpecSearch == InitSearch /\ [][NextSearch]_vars


(***************************************************************************)
(* Statement-level runs.  The statements of one call are separate writes   *)
(* (no transaction spans them); the process can die between any two, and   *)
(* the next process finds the tables as the last statement left them.      *)
(***************************************************************************)
CallUpsert ==
  /\ frame = Idle
  /\ nwrites < MaxWrites
  /\ \E a \in UpsertArgs, now \in Nows :
       /\ frame' = UpsertStart(a, now, currentProject)
       /\ clock' = now
  /\ nwrites' = nwrites + 1
  /\ UNCHANGED <<tables, currentProject, lastCall, startup>>

CallDelete ==
  /\ frame = Idle
  /\ nwrites < MaxWrites
  /\ \E id \in IdInputs : frame' = DeleteStart(id)
  /\ nwrites' = nwrites + 1
  /\ UNCHANGED <<tables, currentProject, lastCall, clock, startup>>

Statement ==
  /\ frame.pc \notin {"idle", "done"}
  /\ \E c \in Steps(DB, frame) :
       /\ Commit(c.db)
       /\ frame' = c.fr
  /\ UNCHANGED <<currentProject, clock, lastCall, nwrites, startup>>

Return ==
  /\ frame.pc = "done"
  /\ lastCall' = Ended(frame)
  /\ frame' = Idle
  /\ UNCHANGED <<tables, currentProject, clock, nwrites, startup>>

\* the process dies inside a call; the next one runs initDb in the same directory
Restart ==
  /\ frame.pc \notin {"idle", "done"}
  /\ Commit(upsertProject(DB, currentProject.name, clock))
  /\ frame' = Idle
  /\ lastCall' = [Idle EXCEPT !.op = "crash"]
  /\ starts' = starts + 1
  /\ UNCHANGED <<currentProject, clock, nwrites, db, schema_version, schema, applied>>

NextCrash == CallUpsert \/ CallDelete \/ Statement \/ Return \/ Restart
SpecCrash == Init /\ [][NextCrash]_vars

(***************************************************************************)
(* Properties.                                                             *)
(***************************************************************************)
IsUpsert(c) == c.op \in {"upsertRecord", "upsert_record"}
IsSearch(c) == c.op \in {"searchRecords", "search"}
Returned(c) == ~c.ret.threw

\* the stored records of one project and kind whose vector lies within the dedup
\* threshold of emb, and the nearest of them
Near(proj, kind, emb) ==
  {id \in DOMAIN record \cap DOMAIN record_embedding :
     /\ record[id].project_id = proj
     /\ record[id].kind = kind
     /\ Dist(record_embedding[id], emb) <= DedupThreshold}
Nearest(proj, kind, emb) ==
  {id \in Near(proj, kind, emb) :
     \A o \in Near(proj, kind, emb) :
       Dist(record_embedding[id], emb) <= Dist(record_embedding[o], emb)}

\* C1: an upsertRecord without id whose embedding lies within 0.15 of a stored
\* record of the same project and kind creates no record, overwrites the nearest
\* such record and returns its id, however many records of other projects or kinds
\* are stored.
C1_DedupFindsMatch ==
  [][ (nwrites' = nwrites + 1 /\ IsUpsert(lastCall') /\ ~Truthy(lastCall'.a.id)
         /\ Near(lastCall'.proj, lastCall'.a.kind, lastCall'.a.embedding) # {})
      => /\ DOMAIN record' = DOMAIN record
         /\ Returned(lastCall')
         /\ Len(lastCall'.ret.rows) = 1
         /\ lastCall'.ret.rows[1].id
              \in Nearest(lastCall'.proj, lastCall'.a.kind, lastCall'.a.embedding)
         /\ record'[lastCall'.ret.rows[1].id].title = lastCall'.a.title
         /\ record_embedding'[lastCall'.ret.rows[1].id] = lastCall'.a.embedding
    ]_vars

\* C2: two successive upsertRecord calls without id, for the same project and kind
\* and with embeddings within the threshold of each other: the second adds no
\* record row and returns the id the first returned.
C2_DedupIdempotent ==
  [][ (/\ nwrites' = nwrites + 1
       /\ IsUpsert(lastCall) /\ ~Truthy(lastCall.a.id) /\ Returned(lastCall)
       /\ Len(lastCall.ret.rows) = 1
       /\ IsUpsert(lastCall') /\ ~Truthy(lastCall'.a.id)
       /\ lastCall'.proj = lastCall.proj
       /\ lastCall'.a.kind = lastCall.a.kind
       /\ Dist(lastCall.a.embedding, lastCall'.a.embedding) <= DedupThreshold)
      => /\ DOMAIN record' = DOMAIN record
         /\ Returned(lastCall')
         /\ Len(lastCall'.ret.rows) = 1
         /\ lastCall'.ret.rows[1].id = lastCall.ret.rows[1].id
    ]_vars

\* C3: after an upsertRecord call that returns, one record row and one embedding
\* exist for the returned id; an update of an id that names no record does not
\* return normally leaving an embedding without a record.
C3_PairAfterUpsert ==
  (IsUpsert(lastCall) /\ Returned(lastCall))
    => /\ Len(lastCall.ret.rows) = 1
       /\ lastCall.ret.rows[1].id = lastCall.target
       /\ lastCall.target \in DOMAIN record
       /\ lastCall.target \in DOMAIN record_embedding

\* C4: in every state, between the statements of a call as well, every embedding's
\* key is the id of a stored record.
C4_NoOrphanEmbedding == DOMAIN record_embedding \subseteq DOMAIN record

\* C5: an upsertRecord with the id of a stored record (and valid kind and status)
\* leaves the set of record rows as it was, performs no dedup (it writes the named
\* record and its embedding and nothing else), returns the record with that id and
\* sets its updatedAt to the time of the call.
C5_ExplicitUpdate ==
  [][ (/\ nwrites' = nwrites + 1
       /\ IsUpsert(lastCall') /\ Truthy(lastCall'.a.id)
       /\ lastCall'.a.id[1] \in DOMAIN record
       /\ lastCall'.a.kind \in Kinds /\ lastCall'.a.status[1] \in Statuses)
      => LET id == lastCall'.a.id[1] IN
         /\ DOMAIN record' = DOMAIN record
         /\ Returned(lastCall')
         /\ Len(lastCall'.ret.rows) = 1
         /\ lastCall'.ret.rows[1].id = id
         /\ record'[id].id = id
         /\ record'[id].project_id = record[id].project_id
         /\ record'[id].created_at = record[id].created_at
         /\ record'[id].updated_at = lastCall'.now
         /\ record'[id].updated_at >= record[id].updated_at
         /\ record'[id].title = lastCall'.a.title
         /\ record_embedding'[id] = lastCall'.a.embedding
         /\ \A o \in DOMAIN record \ {id} : record'[o] = record[o]
         /\ \A o \in DOMAIN record_embedding \ {id} :
              o \in DOMAIN record_embedding' /\ record_embedding'[o] = record_embedding[o]
         /\ DOMAIN record_embedding' = DOMAIN record_embedding \cup {id}
    ]_vars

\* C5 witness: a second call has updated a stored record by id while another record
\* of its project and kind lies within the dedup threshold of the new embedding.
C5_Witness ==
  /\ nwrites = 2
  /\ IsUpsert(lastCall) /\ Truthy(lastCall.a.id) /\ Returned(lastCall)
  /\ Len(lastCall.ret.rows) = 1
  /\ \E o \in DOMAIN record \cap DOMAIN record_embedding :
       /\ o # lastCall.target
       /\ lastCall.target \in DOMAIN record
       /\ record[o].project_id = record[lastCall.target].project_id
       /\ record[o].kind = record[lastCall.target].kind
       /\ Dist(record_embedding[o], lastCall.a.embedding) <= DedupThreshold


(***************************************************************************)
(* The similarity of one fetched row, over the whole range of distances.   *)
(***************************************************************************)
MaxDistance == 2000    \* cosine distance ranges over [0, 2]

FetchedRow(d, p) ==
  [record_id |-> 1, distance |-> d, id |-> 1, kind |-> "issue", title |-> "t1",
   body |-> "", status |-> "open", created_at |-> 0, updated_at |-> 0, project |-> p]

\* the row's distance and project are drawn at the start; the step maps the row
ApplySimilarity ==
  /\ lastCall.op = "row"
  /\ lastCall' = [lastCall EXCEPT
                    !.op = "similarity",
                    !.ret = [NoRet EXCEPT
                               !.rows = WithSimilarity(
                                          <<FetchedRow(lastCall.a.distance, lastCall.a.project)>>,
                                          currentProject)]]
  /\ UNCHANGED <<tables, currentProject, clock, frame, nwrites, startup>>

InitSimilarity ==
  /\ project = SeedEmpty.project
  /\ record = SeedEmpty.record
  /\ record_embedding = SeedEmpty.record_embedding
  /\ sqlite_sequence = SeedEmpty.seq
  /\ currentProject = [id |-> 1, name |-> "alpha"]
  /\ clock = 0
  /\ frame = Idle
  /\ nwrites = 0
  /\ Started
  /\ \E d \in 0..MaxDistance, p \in {"alpha", "beta"} :
       lastCall = [Idle EXCEPT !.op = "row", !.a = [distance |-> d, project |-> p]]

NextSimilarity == ApplySimilarity
SpecSimilarity == InitSimilarity /\ [][NextSimilarity]_vars

(***************************************************************************)
(* Properties of the read path.                                            *)
(***************************************************************************)
QueryOf(c) == IF c.op = "search" THEN embed(c.a.query) ELSE c.a.embedding
LimitOf(c) == Coalesce(c.a.limit, DefaultLimit)
RowIds(rows) == {rows[i].id : i \in 1..Len(rows)}

\* similarity of stored record id to query q: 1 - distance, plus 0.1 capped at 1.0
\* for a record of the current project
RawSim(id, q) == One - Dist(record_embedding[id], q)
BoostedSim(id, q) ==
  IF record[id].project_id = currentProject.id
  THEN Min(SimilarityCap, RawSim(id, q) + Boost)
  ELSE RawSim(id, q)

\* the stored records a search with this kind filter can return
Candidates(kind) ==
  {id \in DOMAIN record \cap DOMAIN record_embedding :
     KindGiven(kind) => record[id].kind = kind[1]}

\* C6: searchRecords returns min(limit, N) results, N the number of stored
\* candidates (matching the kind filter) with boosted similarity >= 0.3, sorted
\* descending by similarity.
C6_ReturnsAllAboveThreshold ==
  IsSearch(lastCall) =>
    LET rows == lastCall.ret.rows
        q == QueryOf(lastCall)
        N == Cardinality({id \in Candidates(lastCall.a.kind) :
                            BoostedSim(id, q) >= MinSimilarity})
    IN /\ Len(rows) = Min(LimitOf(lastCall), N)
       /\ \A i, j \in 1..Len(rows) : i < j => rows[i].similarity >= rows[j].similarity

\* C7: every result has boosted similarity >= 0.3; of the fetched candidates (the
\* limit x 3 nearest, joined and filtered by kind) one at exactly 0.3 or above is
\* left out only when limit results at least as similar are returned, one below 0.3
\* never appears; the threshold is applied to the boosted value.
C7_ThresholdOnBoosted ==
  IsSearch(lastCall) =>
    LET rows == lastCall.ret.rows
        q == QueryOf(lastCall)
        limit == LimitOf(lastCall)
    IN /\ \A i \in 1..Len(rows) :
            /\ rows[i].id \in Candidates(lastCall.a.kind)
            /\ rows[i].similarity = BoostedSim(rows[i].id, q)
            /\ rows[i].similarity >= MinSimilarity
       /\ \E S \in KnnSets(record_embedding, q, limit * OverFetch) :
            LET fetched == S \cap Candidates(lastCall.a.kind) IN
            /\ RowIds(rows) \subseteq fetched
            /\ \A id \in fetched \ RowIds(rows) :
                 BoostedSim(id, q) >= MinSimilarity
                   => /\ Len(rows) = limit
                      /\ \A i \in 1..Len(rows) : rows[i].similarity >= BoostedSim(id, q)

\* C7 witness: a search that fetched every stored vector returned a result at
\* exactly 0.3, left out a candidate at 0.299, and kept a current-project record of
\* raw similarity in [0.2, 0.3) while leaving out another project's record at the
\* same distance.
C7_Witness ==
  /\ IsSearch(lastCall)
  /\ LimitOf(lastCall) * OverFetch >= Cardinality(DOMAIN record_embedding)
  /\ LET rows == lastCall.ret.rows
         q == QueryOf(lastCall)
     IN /\ \E i \in 1..Len(rows) : rows[i].similarity = MinSimilarity
        /\ \E id \in Candidates(lastCall.a.kind) \ RowIds(rows) :
             BoostedSim(id, q) = MinSimilarity - 1
        /\ \E id \in RowIds(rows), o \in Candidates(lastCall.a.kind) \ RowIds(rows) :
             /\ record[id].project_id = currentProject.id
             /\ record[o].project_id # currentProject.id
             /\ RawSim(id, q) = RawSim(o, q)
             /\ RawSim(id, q) >= MinSimilarity - Boost
             /\ RawSim(id, q) < MinSimilarity

\* C8: for every distance in [0, 2] the reported similarity is at most 1.0: it is
\* min(1.0, (1 - distance) + 0.1) for a row of the current project and 1 - distance
\* for any other row.
C8_SimilarityCapped ==
  lastCall.op = "similarity" =>
    LET r == lastCall.ret.rows[1]
        d == lastCall.a.distance
    IN /\ r.similarity <= 1000
       /\ lastCall.a.project = currentProject.name
            => r.similarity = (IF 1100 - d <= 1000 THEN 1100 - d ELSE 1000)
       /\ lastCall.a.project # currentProject.name => r.similarity = 1000 - d

\* C8 witness: a current-project row at distance 0, whose boosted value 1.1 is cut to 1.0
C8_Witness ==
  /\ lastCall.op = "similarity"
  /\ lastCall.a.distance = 0
  /\ lastCall.a.project = currentProject.name
  /\ lastCall.ret.rows[1].similarity = 1000

\* C9: the boost goes to the results owned by the current project and to no others,
\* and the projectId argument changes nothing: the same search with any other
\* projectId can return the same list.
C9_BoostIgnoresTarget ==
  lastCall.op = "searchRecords" =>
    LET rows == lastCall.ret.rows
        q == QueryOf(lastCall)
    IN /\ \A i \in 1..Len(rows) :
            LET id == rows[i].id IN
            IF record[id].project_id = currentProject.id
            THEN rows[i].similarity = Min(SimilarityCap, RawSim(id, q) + Boost)
            ELSE rows[i].similarity = RawSim(id, q)
       /\ \A pr \in Opt(DOMAIN project) :
            searchRecords(DB, currentProject, [lastCall.a EXCEPT !.projectId = pr])
              = searchRecords(DB, currentProject, lastCall.a)
       /\ rows \in searchRecords(DB, currentProject, [lastCall.a EXCEPT !.projectId = Undefined])

\* C9 witness: a search that names project beta as its target returned a boosted
\* record of the current project alpha and an unboosted record of beta
C9_Witness ==
  /\ lastCall.op = "searchRecords"
  /\ lastCall.a.projectId = Some(2)
  /\ currentProject.id = 1
  /\ LET rows == lastCall.ret.rows
         q == QueryOf(lastCall)
     IN \E i, j \in 1..Len(rows) :
          /\ record[rows[i].id].project_id = 1
          /\ rows[i].similarity = RawSim(rows[i].id, q) + Boost
          /\ record[rows[j].id].project_id = 2
          /\ rows[j].similarity = RawSim(rows[j].id, q)

\* C10: the project parameter of the search tool selects the boosted project: with
\* "*" no result is boosted, with another project's name that project's results are
\* boosted and the current project's are not.
C10_ProjectSelectsBoost ==
  lastCall.op = "search" =>
    LET rows == lastCall.ret.rows
        q == QueryOf(lastCall)
        boosted == Coalesce(lastCall.a.project, currentProject.name)
    IN \A i \in 1..Len(rows) :
         rows[i].similarity =
           IF rows[i].project = boosted
           THEN Min(SimilarityCap, RawSim(rows[i].id, q) + Boost)
           ELSE RawSim(rows[i].id, q)


(***************************************************************************)
(* listRecords, lines 123-155.                                             *)
(***************************************************************************)
\* a JavaScript string used as a condition: undefined and '' are falsy
TruthyStr(o) == IsDefined(o) /\ o[1] # ""

\* lines 125-131: the project id the listing is restricted to, or undefined
ListProjectId(D, cur, proj) ==
  IF ~TruthyStr(proj) \/ proj = Some("current") THEN Some(cur.id)
  ELSE IF proj # Some("*")
       THEN LET p == {i \in DOMAIN D.project : D.project[i].name = proj[1]}
            IN IF p = {} THEN Undefined ELSE Some(CHOOSE i \in p : TRUE)
       ELSE Undefined

\* one row of the SELECT of lines 133-136
ListRow(D, id) ==
  [id |-> id, kind |-> D.record[id].kind, title |-> D.record[id].title,
   status |-> D.record[id].status, updated_at |-> D.record[id].updated_at,
   project |-> D.project[D.record[id].project_id].name]

\* ORDER BY r.updated_at DESC: rows of equal updated_at come in any order
RECURSIVE ByUpdatedDesc(_, _)
ByUpdatedDesc(S, D) ==
  IF S = {} THEN {<<>>}
  ELSE UNION {{<<ListRow(D, x)>> \o t : t \in ByUpdatedDesc(S \ {x}, D)} :
                x \in {y \in S : \A o \in S : D.record[y].updated_at >= D.record[o].updated_at}}

\* listRecords with the status filter applied only when no kind is given
listRecords_StatusUnlessKind(D, cur, a) ==
  LET projectId == ListProjectId(D, cur, a.project)
      rows == {id \in DOMAIN D.record :
                 /\ D.record[id].project_id \in DOMAIN D.project
                 /\ (Truthy(projectId) => D.record[id].project_id = projectId[1])
                 /\ (KindGiven(a.kind) => D.record[id].kind = a.kind[1])
                 /\ ((KindGiven(a.status) /\ ~KindGiven(a.kind))
                       => D.record[id].status = a.status[1])}
  IN ByUpdatedDesc(rows, D)

\* listRecords({ kind, status, project }): the possible row lists
listRecords(D, cur, a) ==
  LET projectId == ListProjectId(D, cur, a.project)
      rows == {id \in DOMAIN D.record :
                 /\ D.record[id].project_id \in DOMAIN D.project
                 /\ (Truthy(projectId) => D.record[id].project_id = projectId[1])
                 /\ (KindGiven(a.kind) => D.record[id].kind = a.kind[1])
                 /\ (KindGiven(a.status) => D.record[id].status = a.status[1])}
  IN ByUpdatedDesc(rows, D)

ListArgs ==
  {[kind |-> k, status |-> st, project |-> pr] :
     k \in Opt({"all", "issue"}), st \in Opt({"all", "open"}),
     pr \in Opt({"", "current", "*", "alpha", "beta", "gamma"})}

ListRecords ==
  /\ frame = Idle
  /\ \E a \in ListArgs :
       \E rows \in listRecords(DB, currentProject, a) :
         lastCall' = [Idle EXCEPT !.op = "listRecords", !.a = a,
                                  !.ret = [NoRet EXCEPT !.rows = rows]]
  /\ UNCHANGED <<tables, currentProject, clock, frame, nwrites, startup>>

\* Listings over the records of two projects, which deletions thin out.
InitList == InitWith({SeedSmall})
NextList == ListRecords \/ DeleteRecord
SpecList == InitList /\ [][NextList]_vars

\* the stored records of the given projects that pass the call's kind and status filters
Listed(c, projs) ==
  {id \in DOMAIN record :
     /\ record[id].project_id \in projs
     /\ (KindGiven(c.a.kind) => record[id].kind = c.a.kind[1])
     /\ (KindGiven(c.a.status) => record[id].status = c.a.status[1])}

\* C11: listRecords returns the current project's records when project is absent
\* or "current", the records of all projects for "*", the named project's records
\* for the name of a stored project, and nothing for a name that no project has.
C11_ListProjectResolution ==
  lastCall.op = "listRecords" =>
    LET pr == lastCall.a.project
        ids == RowIds(lastCall.ret.rows)
        named == {i \in DOMAIN project : IsDefined(pr) /\ project[i].name = pr[1]}
    IN /\ Len(lastCall.ret.rows) = Cardinality(ids)
       /\ ids = IF ~TruthyStr(pr) \/ pr = Some("current") THEN Listed(lastCall, {currentProject.id})
                ELSE IF pr = Some("*") THEN Listed(lastCall, DOMAIN project)
                ELSE Listed(lastCall, named)


(***************************************************************************)
(* Properties of deleteRecord, statement by statement.                     *)
(***************************************************************************)
\* deleteRecord statement by statement, between whole upsert_record calls and
\* process deaths inside a deleteRecord
InitDelete == InitWith({SeedEmpty, SeedSmall})
NextDelete == CallDelete \/ Statement \/ Return \/ Restart \/ UpsertRecordTool
SpecDelete == InitDelete /\ [][NextDelete]_vars

\* f and g agree everywhere but at key k, where g has nothing
SameBut(f, g, k) ==
  /\ DOMAIN g = DOMAIN f \ {k}
  /\ \A x \in DOMAIN g : g[x] = f[x]

\* C12: deleteRecord(id) first removes the embedding of id and nothing else, then
\* the record of id and nothing else; it returns true exactly when a record with
\* that id was stored when it was called and false, without throwing, when none
\* was; after it neither a record nor an embedding with that id is stored.
C12_DeleteRecord ==
  [][ /\ (frame.pc = "idle" /\ frame'.op = "deleteRecord")
           => UNCHANGED tables
      /\ (frame.op = "deleteRecord" /\ frame.pc = "del_embedding" /\ frame'.op = "deleteRecord")
           => /\ frame'.pc = "del_record"
              /\ SameBut(record_embedding, record_embedding', frame.target)
              /\ UNCHANGED <<record, project, sqlite_sequence>>
      /\ (frame.op = "deleteRecord" /\ frame.pc = "del_record" /\ frame'.op = "deleteRecord")
           => /\ frame'.pc = "done"
              /\ frame.target \notin DOMAIN record_embedding
              /\ SameBut(record, record', frame.target)
              /\ UNCHANGED <<record_embedding, project, sqlite_sequence>>
              /\ ~frame'.ret.threw
              /\ frame'.ret.changed = (frame.target \in DOMAIN record)
      /\ (frame.op = "deleteRecord" /\ frame.pc = "done" /\ frame' = Idle)
           => /\ lastCall'.op = "deleteRecord"
              /\ lastCall'.ret = frame.ret
              /\ frame.target \notin DOMAIN record' \cup DOMAIN record_embedding'
              /\ UNCHANGED tables
    ]_vars

\* C12 witness: a deleteRecord call has returned true, its record and embedding are
\* gone, and another record with its embedding is still stored
C12_Witness ==
  /\ lastCall.op = "deleteRecord"
  /\ lastCall.ret.changed
  /\ lastCall.target \notin DOMAIN record \cup DOMAIN record_embedding
  /\ DOMAIN record \cap DOMAIN record_embedding # {}


(***************************************************************************)
(* Deleting a project.  db.js has no function for it; the statement is     *)
(* DELETE FROM project WHERE id = ? on the schema the migrations create:   *)
(* record.project_id REFERENCES project(id) ON DELETE CASCADE with         *)
(* foreign_keys = ON, and record_embedding a vec0 virtual table, which     *)
(* carries no foreign key and no trigger.                                  *)
(***************************************************************************)
SqlDeleteProject(D, id) ==
  Ok([D EXCEPT !.project = Remove(D.project, id),
               !.record = [x \in {y \in DOMAIN D.record : D.record[y].project_id # id}
                             |-> D.record[x]]])

DeleteProject ==
  /\ frame = Idle
  /\ nwrites < MaxWrites
  /\ \E id \in 1..3 :
       /\ Commit(SqlDeleteProject(DB, id).db)
       /\ lastCall' = [Idle EXCEPT !.op = "deleteProject", !.a = [id |-> id], !.target = id,
                                   !.ret = [NoRet EXCEPT !.changed = id \in DOMAIN project]]
  /\ nwrites' = nwrites + 1
  /\ UNCHANGED <<currentProject, frame, clock, startup>>

\* Projects deleted among writes to the records of two projects.
InitCascade == InitWith({SeedSmall})
NextCascade == DeleteProject \/ DeleteRecord \/ UpsertRecordTool
SpecCascade == InitCascade /\ [][NextCascade]_vars

\* C13: deleting a project removes every record of the project and the embedding
\* of each of them, and leaves no embedding whose key is not a stored record's id
\* (where there was none before).
C13_ProjectCascade ==
  [][ lastCall'.op = "deleteProject" /\ nwrites' = nwrites + 1
      => /\ \A id \in DOMAIN record :
              record[id].project_id = lastCall'.target
                => id \notin DOMAIN record' /\ id \notin DOMAIN record_embedding'
         /\ (DOMAIN record_embedding \subseteq DOMAIN record
               => DOMAIN record_embedding' \subseteq DOMAIN record')
    ]_vars


(***************************************************************************)
(* Startup: initDb and runMigrations, lines 38-61 and 85-99.  initDb is    *)
(* async: it sets db, then awaits runMigrations, which awaits the import   *)
(* of each migration file in turn; between two awaits other callers of the *)
(* module run.  frame holds the position of the initDb in flight.          *)
(***************************************************************************)
MaxStarts == 3     \* processes started on one data directory

MaxOf(S) == CHOOSE x \in S : \A y \in S : y <= x

\* CurrentVersion that never reads the table
CurrentVersion_Zero(sv) == 0

\* lines 40-41: SELECT MAX(version); row?.v ?? 0
CurrentVersion(sv) == IF sv = {} THEN 0 ELSE MaxOf(sv)

\* mod.up(d) on schema S: the statements run in order; with failAt = k > 0
\* statement k throws after the statements before it have taken effect
RunUp(S, f, failAt) ==
  [schema |-> S \cup {<<f.version, k>> :
                        k \in 1..(IF failAt = 0 THEN f.statements ELSE failAt - 1)},
   threw |-> failAt # 0]

\* lines 55-56: the function given to d.transaction
TxBody(M, f, failAt) ==
  LET u == RunUp(M.schema, f, failAt)
  IN IF u.threw \/ f.version \in M.schema_version
     THEN [schema |-> u.schema, schema_version |-> M.schema_version, threw |-> TRUE]
     ELSE [schema |-> u.schema, schema_version |-> M.schema_version \cup {f.version},
           threw |-> FALSE]

\* Transaction without the rollback
Transaction_NoRollback(before, after) == after

\* lines 54 and 58, d.transaction(fn)(): BEGIN, fn, COMMIT; ROLLBACK and rethrow
\* when fn throws
Transaction(before, after) ==
  IF after.threw THEN [before EXCEPT !.threw = TRUE] ELSE after

\* one turn of the loop of lines 50-60
MigrateFile(M, f, currentVersion, failAt) ==
  IF f.version > currentVersion THEN Transaction(M, TxBody(M, f, failAt)) ELSE M

\* where startup stands, as a caller of the module finds it
InitState ==
  IF db = "null" THEN "not_called"
  ELSE IF frame.op = "initDb" THEN "awaiting"
  ELSE IF currentProject = NoProject THEN "failed"
  ELSE "ready"

\* initDb in a process that has not called it: lines 86-89 up to the first await
InitDb ==
  /\ db = "null"
  /\ frame = Idle
  /\ db' = "open"
  /\ frame' = [Idle EXCEPT !.op = "initDb", !.pc = "import",
                           !.a = [i |-> 1, currentVersion |-> CurrentVersion(schema_version)]]
  /\ lastCall' = [Idle EXCEPT !.op = "start"]
  /\ UNCHANGED <<tables, currentProject, clock, nwrites, schema_version, schema, starts,
                 applied>>

\* InitDbAgain resolving the project anew
InitDbAgain_Reresolves ==
  /\ db # "null"
  /\ frame = Idle
  /\ <<1, 1>> \in schema
  /\ \E name \in {"alpha", "beta"} :
       LET D == upsertProject(DB, name, clock + 1)
           id == CHOOSE p \in DOMAIN D.project : D.project[p].name = name
       IN /\ Commit(D)
          /\ currentProject' = [id |-> id, name |-> name]
  /\ lastCall' = [Idle EXCEPT !.op = "initDb", !.path = "early",
                              !.a = [state |-> InitState]]
  /\ UNCHANGED <<clock, frame, nwrites, startup>>

\* line 86: if (db) return db
InitDbAgain ==
  /\ db # "null"
  /\ lastCall' = [Idle EXCEPT !.op = "initDb", !.path = "early",
                              !.a = [state |-> InitState]]
  /\ UNCHANGED <<tables, currentProject, clock, frame, nwrites, startup>>

\* the import of files[i] has resolved: lines 51-59 for this file, then the next await
Import ==
  /\ frame.op = "initDb"
  /\ frame.pc = "import"
  /\ LET i == frame.a.i
         f == files[i]
         M == [schema |-> schema, schema_version |-> schema_version, threw |-> FALSE]
     IN \E failAt \in IF f.version > frame.a.currentVersion THEN 0..f.statements ELSE {0} :
          LET r == MigrateFile(M, f, frame.a.currentVersion, failAt) IN
          /\ schema' = r.schema
          /\ schema_version' = r.schema_version
          /\ applied' = IF r.schema_version # schema_version
                        THEN Append(applied, f.version) ELSE applied
          /\ IF r.threw
             THEN /\ frame' = Idle
                  /\ lastCall' = [Idle EXCEPT !.op = "initDb", !.path = "full",
                                              !.a = [state |-> "awaiting", file |-> i,
                                                     failAt |-> failAt],
                                              !.ret = [NoRet EXCEPT !.threw = TRUE]]
             ELSE /\ frame' = [frame EXCEPT !.pc = IF i < Len(files) THEN "import" ELSE "resume",
                                            !.a = [frame.a EXCEPT !.i = i + 1]]
                  /\ lastCall' = [Idle EXCEPT !.op = "migration", !.a = [file |-> i]]
  /\ UNCHANGED <<tables, currentProject, clock, nwrites, db, starts>>

\* runMigrations has resolved: lines 90-93
Resume ==
  /\ frame.op = "initDb"
  /\ frame.pc = "resume"
  /\ \E name \in {"alpha", "beta"}, now \in Nows :
       /\ clock' = now
       /\ IF <<1, 1>> \in schema
          THEN LET D == upsertProject(DB, name, now)
                   id == CHOOSE p \in DOMAIN D.project : D.project[p].name = name
               IN /\ Commit(D)
                  /\ currentProject' = [id |-> id, name |-> name]
                  /\ lastCall' = [Idle EXCEPT !.op = "initDb", !.path = "full",
                                              !.a = [state |-> "awaiting"]]
          ELSE /\ UNCHANGED <<tables, currentProject>>
               /\ lastCall' = [Idle EXCEPT !.op = "initDb", !.path = "full",
                                           !.a = [state |-> "awaiting"],
                                           !.ret = [NoRet EXCEPT !.threw = TRUE]]
  /\ frame' = Idle
  /\ UNCHANGED <<nwrites, startup>>

\* the process ends and the next one starts on the same data directory
Exit ==
  /\ db # "null"
  /\ starts < MaxStarts
  /\ db' = "null"
  /\ currentProject' = NoProject
  /\ frame' = Idle
  /\ starts' = starts + 1
  /\ lastCall' = [Idle EXCEPT !.op = "exit"]
  /\ UNCHANGED <<tables, clock, nwrites, schema_version, schema, applied>>


(***************************************************************************)
(* The exported functions of db.js as another module calls them at any     *)
(* point of startup.  Each calls getDb() first (line 97) and, where it     *)
(* needs the current project, getCurrentProject() (line 106) before its    *)
(* first statement.  001-initial.js creates the three tables; the calls    *)
(* below use the kind "issue", which both versions of the schema allow.    *)
(***************************************************************************)
\* listProjects(), lines 110-112: ORDER BY name
listProjects(D) ==
  LET rowsOf(n) == IF \E i \in DOMAIN D.project : D.project[i].name = n
                   THEN LET i == CHOOSE j \in DOMAIN D.project : D.project[j].name = n
                        IN <<[id |-> i, name |-> n, created_at |-> D.project[i].created_at,
                              updated_at |-> D.project[i].updated_at]>>
                   ELSE <<>>
  IN rowsOf("alpha") \o rowsOf("beta")

StoreCalls ==
  {[op |-> "getDb", a |-> <<>>],
   [op |-> "getRecord", a |-> [id |-> 1]],
   [op |-> "listProjects", a |-> <<>>],
   [op |-> "deleteRecord", a |-> [id |-> 1]],
   [op |-> "searchRecords",
    a |-> [embedding |-> "a", kind |-> Undefined, projectId |-> Undefined,
           limit |-> Undefined]]}
  \cup {[op |-> "listRecords", a |-> [kind |-> Undefined, status |-> Undefined, project |-> pr]] :
          pr \in {Undefined, Some("*")}}
  \cup {[op |-> "upsertRecord",
         a |-> [id |-> Undefined, projectId |-> pr, kind |-> "issue", title |-> "t1",
                body |-> Undefined, status |-> Undefined, embedding |-> "a"]] :
          pr \in {Undefined, Some(1)}}

Writes == {"deleteRecord", "upsertRecord"}

\* does the call read currentProject (lines 127, 166, 213)
NeedsProject(c) ==
  \/ c.op = "searchRecords"
  \/ c.op = "listRecords" /\ (~TruthyStr(c.a.project) \/ c.a.project = Some("current"))
  \/ c.op = "upsertRecord" /\ ~IsDefined(c.a.projectId)

\* how the call ends before its first statement, or "ok" when it reaches it
Guarded(c, dbv, cur, sch) ==
  IF dbv = "null" THEN "not_initialised"
  ELSE IF NeedsProject(c) /\ cur = NoProject THEN "not_initialised"
  ELSE IF c.op # "getDb" /\ ~(SchemaOf({1}) \subseteq sch) THEN "sql_error"
  ELSE "ok"

\* the possible outcomes of the call: the database after it and what it returns
StoreCall(D, c, now, dbv, cur, sch) ==
  LET g == Guarded(c, dbv, cur, sch)
      out(D2, ret) == [db |-> D2, path |-> g, ret |-> ret]
      rows(r) == [NoRet EXCEPT !.rows = r]
  IN IF g # "ok" THEN {out(D, [NoRet EXCEPT !.threw = TRUE])}
     ELSE CASE c.op = "getDb" -> {out(D, NoRet)}
            [] c.op = "getRecord" -> {out(D, rows(getRecord(D, c.a.id)))}
            [] c.op = "listProjects" -> {out(D, rows(listProjects(D)))}
            [] c.op = "listRecords" -> {out(D, rows(r)) : r \in listRecords(D, cur, c.a)}
            [] c.op = "searchRecords" -> {out(D, rows(r)) : r \in searchRecords(D, cur, c.a)}
            [] c.op = "deleteRecord" -> {out(x.db, x.fr.ret) : x \in deleteRecord(D, c.a.id)}
            [] c.op = "upsertRecord" -> {out(x.db, x.fr.ret) : x \in upsertRecord(D, c.a, now, cur)}

StoreOp ==
  /\ \E c \in StoreCalls :
       /\ c.op \in Writes => nwrites < MaxWrites
       /\ \E r \in StoreCall(DB, c, clock, db, currentProject, schema) :
            /\ Commit(r.db)
            /\ lastCall' = [Idle EXCEPT !.op = c.op, !.a = [call |-> c.a, state |-> InitState],
                                        !.path = r.path, !.ret = r.ret]
       /\ nwrites' = IF c.op \in Writes THEN nwrites + 1 ELSE nwrites
  /\ UNCHANGED <<currentProject, clock, frame, startup>>

\* A fresh data directory and the processes started on it.
InitFresh ==
  /\ project = <<>>
  /\ record = <<>>
  /\ record_embedding = <<>>
  /\ sqlite_sequence = 0
  /\ currentProject = NoProject
  /\ clock = 0
  /\ frame = Idle
  /\ lastCall = Idle
  /\ nwrites = 0
  /\ db = "null"
  /\ schema_version = {}
  /\ schema = {}
  /\ starts = 1
  /\ applied = <<>>

NextInit == InitDb \/ InitDbAgain \/ Import \/ Resume \/ Exit \/ StoreOp
SpecInit == InitFresh /\ [][NextInit]_vars


(***************************************************************************)
(* Properties of startup.                                                  *)
(***************************************************************************)
\* the stored schema version: the largest row of schema_version, 0 without rows
StoredVersion(sv) == MaxOf(sv \cup {0})

\* the step is the migration loop of the initDb in flight going on to its next await
MigrationTurn == frame.op = "initDb" /\ frame.pc = "import" /\ frame' # frame /\ db' = db

\* C14: when a migration step fails, the stored version and the schema objects are
\* what they were before the step, initDb rejects, and the process attempts no
\* further migration.
C14_FailedMigrationRollsBack ==
  [][ /\ (MigrationTurn /\ frame'.op # "initDb")
           => /\ lastCall'.op = "initDb" /\ lastCall'.ret.threw
              /\ schema_version' = schema_version
              /\ schema' = schema
              /\ applied' = applied
              /\ UNCHANGED tables
      /\ InitState = "failed"
           => /\ schema_version' = schema_version
              /\ schema' = schema
              /\ frame'.op # "initDb"
    ]_vars

\* C14 witness: the second migration failed after its first statements had run, and
\* the database holds version 1 and the objects of the first migration only
C14_Witness ==
  /\ lastCall.op = "initDb" /\ lastCall.ret.threw
  /\ lastCall.a.state = "awaiting"
  /\ schema_version = {1}
  /\ schema = SchemaOf({1})
  /\ InitState = "failed"
  /\ \E k \in 2..5 : lastCall.a = [state |-> "awaiting", file |-> 2, failAt |-> k]

\* C15: over all process starts every migration commits at most once and in
\* ascending version order, the stored version never decreases, runMigrations
\* resolves only with every registered migration applied and the stored version the
\* highest registered one, and a turn of the loop for a file that is not pending
\* changes nothing and does not fail.
C15_MigrationsOnceInOrder ==
  /\ [](/\ \A i, j \in DOMAIN applied : i < j => applied[i] < applied[j]
        /\ {applied[i] : i \in DOMAIN applied} = schema_version
        /\ (frame.op = "initDb" /\ frame.pc = "resume")
             => /\ schema_version = Versions
                /\ StoredVersion(schema_version) = MaxOf(Versions)
                /\ schema = SchemaOf(DOMAIN files))
  /\ [][ /\ StoredVersion(schema_version') >= StoredVersion(schema_version)
         /\ (MigrationTurn /\ files[frame.a.i].version <= StoredVersion(schema_version))
              => /\ frame'.op = "initDb"
                 /\ UNCHANGED <<schema_version, schema, applied>>
         /\ (MigrationTurn /\ frame'.op = "initDb" /\ frame'.pc = "import")
              => files[frame'.a.i].version > files[frame.a.i].version
    ]_vars

\* C15 witness: the second process found both migrations applied and its
\* runMigrations resolved without applying any
C15_Witness ==
  /\ starts = 2
  /\ frame.op = "initDb" /\ frame.pc = "resume"
  /\ frame.a.currentVersion = 2
  /\ applied = <<1, 2>>

StoreOpNames == {c.op : c \in StoreCalls}

\* C16: a store operation called before initDb was called, while it awaits its
\* migrations, or after it failed in one, fails with the not-initialised error and
\* leaves the tables alone; an initDb call made while another awaits or after one
\* failed does not resolve.
C16_NoOperationBeforeReady ==
  [][ /\ (lastCall'.op \in StoreOpNames /\ InitState # "ready")
           => /\ lastCall'.ret.threw
              /\ lastCall'.path = "not_initialised"
              /\ UNCHANGED tables
      /\ (lastCall'.op = "initDb" /\ lastCall'.path = "early"
            /\ InitState \in {"awaiting", "failed"})
           => lastCall'.ret.threw
    ]_vars

(***************************************************************************)
(* upsertRecord with a kind or a status that the CHECK constraints of      *)
(* table record refuse.  db.js does not validate its arguments: the only   *)
(* validation is the one the SQL statements run into.                      *)
(***************************************************************************)
BadKinds == {"bogus"}
BadStatuses == {"closed"}

InvalidUpsertArgs ==
  {a \in [id : {Undefined} \cup {Some(j) : j \in IdInputs},
          projectId : {Undefined},
          kind : {"issue"} \cup BadKinds,
          title : {"t2"},
          body : {Undefined},
          status : {Undefined} \cup {Some(x) : x \in BadStatuses},
          embedding : {"a", "f"}] :
     a.kind \in BadKinds \/ IsDefined(a.status)}

UpsertInvalid ==
  /\ frame = Idle
  /\ nwrites < MaxWrites
  /\ \E a \in InvalidUpsertArgs, now \in Nows :
       \E c \in upsertRecord(DB, a, now, currentProject) :
         /\ Commit(c.db)
         /\ clock' = now
         /\ lastCall' = Ended(c.fr)
  /\ nwrites' = nwrites + 1
  /\ UNCHANGED <<currentProject, frame, startup>>

InitInvalid == InitWith({SeedEmpty, SeedSmall})
NextInvalid == UpsertInvalid \/ UpsertRecord \/ DeleteRecord
SpecInvalid == InitInvalid /\ [][NextInvalid]_vars

InvalidCall(c) ==
  IsUpsert(c) /\ (c.a.kind \notin Kinds \/ c.a.status[1] \notin Statuses)

\* C17: an upsertRecord call whose kind or status is outside the allowed values
\* throws and leaves the record rows and the embeddings as they were, whether it
\* names an id, would merge into a near record, or would insert.
C17_InvalidEnumNoWrite ==
  [][ (nwrites' = nwrites + 1 /\ InvalidCall(lastCall'))
      => /\ lastCall'.ret.threw
         /\ record' = record
         /\ record_embedding' = record_embedding
    ]_vars

(***************************************************************************)
(* The dedup threshold at its boundary: implicit inserts whose embedding   *)
(* lies at 0.15 (vector c) or at 0.151 (vector e) from a stored record.    *)
(***************************************************************************)
\* one alpha issue at a, and a record of another project nearer to c and e
SeedEdge ==
  Store(<<SeedRow(1, 1, "issue", "t1"), SeedRow(2, 2, "issue", "t2")>>, <<"a", "b">>)

BoundaryUpsertArgs ==
  {[id |-> Undefined, projectId |-> Undefined, kind |-> k, title |-> p.title,
    body |-> p.body, status |-> p.status, embedding |-> e] :
     k \in KindInputs, p \in Payloads, e \in {"c", "e"}}

UpsertAtBoundary ==
  /\ frame = Idle
  /\ nwrites < MaxWrites
  /\ \E a \in BoundaryUpsertArgs, now \in Nows :
       \E c \in upsertRecord(DB, a, now, currentProject) :
         /\ Commit(c.db)
         /\ clock' = now
         /\ lastCall' = Ended(c.fr)
  /\ nwrites' = nwrites + 1
  /\ UNCHANGED <<currentProject, frame, startup>>

InitBoundary == InitWith({SeedEdge, SeedCrowded})
NextBoundary == UpsertAtBoundary \/ DeleteRecord
SpecBoundary == InitBoundary /\ [][NextBoundary]_vars

\* the stored records of one project and kind that have an embedding, and those of
\* them nearest to emb
SameProjectKind(proj, kind) ==
  {id \in DOMAIN record \cap DOMAIN record_embedding :
     record[id].project_id = proj /\ record[id].kind = kind}
NearestNeighbours(proj, kind, emb) ==
  {id \in SameProjectKind(proj, kind) :
     \A o \in SameProjectKind(proj, kind) :
       Dist(record_embedding[id], emb) <= Dist(record_embedding[o], emb)}

\* C18: an upsertRecord without id whose nearest neighbour of the same project and
\* kind lies at distance exactly 0.15 adds no record and merges into that
\* neighbour; when it lies farther than 0.15 the call adds one record under an id
\* never used before and leaves every stored record and embedding as it was.
C18_ThresholdInclusive ==
  [][ (/\ nwrites' = nwrites + 1
       /\ IsUpsert(lastCall') /\ ~Truthy(lastCall'.a.id)
       /\ lastCall'.a.kind \in Kinds /\ lastCall'.a.status[1] \in Statuses
       /\ NearestNeighbours(lastCall'.proj, lastCall'.a.kind, lastCall'.a.embedding) # {})
      => LET c == lastCall'
             near == NearestNeighbours(c.proj, c.a.kind, c.a.embedding)
             dmin == Dist(record_embedding[CHOOSE id \in near : TRUE], c.a.embedding)
         IN /\ dmin = DedupThreshold
                 => /\ DOMAIN record' = DOMAIN record
                    /\ Returned(c)
                    /\ Len(c.ret.rows) = 1
                    /\ c.ret.rows[1].id \in near
                    /\ record_embedding'[c.ret.rows[1].id] = c.a.embedding
                    /\ record'[c.ret.rows[1].id].title = c.a.title
            /\ dmin > DedupThreshold
                 => /\ Returned(c)
                    /\ Len(c.ret.rows) = 1
                    /\ c.ret.rows[1].id > sqlite_sequence
                    /\ c.ret.rows[1].id \notin DOMAIN record
                    /\ DOMAIN record' = DOMAIN record \cup {c.ret.rows[1].id}
                    /\ \A o \in DOMAIN record : record'[o] = record[o]
                    /\ \A o \in DOMAIN record_embedding :
                         /\ o \in DOMAIN record_embedding'
                         /\ record_embedding'[o] = record_embedding[o]
    ]_vars

(***************************************************************************)
(* The order of the results of a search.                                   *)
(***************************************************************************)
\* C19: the results are in descending order of boosted similarity: a record of the
\* current project farther from the query stands before a nearer record of another
\* project whenever its boosted similarity is the greater; two results of one
\* project stand in the order of their raw distances; and the cut to limit comes
\* after the sort: of the fetched candidates of similarity >= 0.3, one is left out
\* only when limit results at least as similar are returned.
C19_OrderByBoosted ==
  IsSearch(lastCall) =>
    LET rows == lastCall.ret.rows
        q == QueryOf(lastCall)
        limit == LimitOf(lastCall)
        dist(i) == Dist(record_embedding[rows[i].id], q)
        owner(i) == record[rows[i].id].project_id
    IN /\ \A i, j \in 1..Len(rows) :
            /\ i < j => rows[i].similarity >= rows[j].similarity
            /\ (i < j /\ owner(i) = owner(j)) => dist(i) <= dist(j)
            /\ (/\ owner(i) = currentProject.id /\ owner(j) # currentProject.id
                /\ Min(One, One - dist(i) + Boost) > One - dist(j))
                 => i < j
       /\ Len(rows) <= limit
       /\ \E S \in KnnSets(record_embedding, q, limit * OverFetch) :
            LET fetched == {id \in S \cap Candidates(lastCall.a.kind) :
                              BoostedSim(id, q) >= MinSimilarity}
            IN /\ RowIds(rows) \subseteq fetched
               /\ Len(rows) = Min(limit, Cardinality(fetched))
               /\ \A id \in fetched \ RowIds(rows), i \in 1..Len(rows) :
                    rows[i].similarity >= BoostedSim(id, q)

\* C19 witness: a search cut to its limit returned a record of the current project
\* before a nearer record of another project, and left out a fetched candidate of
\* similarity >= 0.3 that lies nearer to the query than the first result
C19_Witness ==
  /\ IsSearch(lastCall)
  /\ LET rows == lastCall.ret.rows
         q == QueryOf(lastCall)
     IN /\ Len(rows) = LimitOf(lastCall)
        /\ \E i, j \in 1..Len(rows) :
             /\ i < j
             /\ record[rows[i].id].project_id = currentProject.id
             /\ record[rows[j].id].project_id # currentProject.id
             /\ Dist(record_embedding[rows[i].id], q) > Dist(record_embedding[rows[j].id], q)
        /\ \E id \in Candidates(lastCall.a.kind) \ RowIds(rows) :
             /\ BoostedSim(id, q) >= MinSimilarity
             /\ Cardinality({o \in DOMAIN record_embedding :
                               Dist(record_embedding[o], q) < Dist(record_embedding[id], q)})
                  < LimitOf(lastCall) * OverFetch

\* C20: the candidates of a search with a kind filter are the limit x 3 records of
\* that kind nearest to the query, whatever records of other kinds lie nearer, and
\* every result has that kind; without a kind, or with "all", they are the
\* limit x 3 nearest records overall.  The results are the (up to limit) most
\* similar of those candidates that reach similarity 0.3.
C20_KindFilterCandidates ==
  IsSearch(lastCall) =>
    LET rows == lastCall.ret.rows
        q == QueryOf(lastCall)
        limit == LimitOf(lastCall)
        kind == lastCall.a.kind
        ofKind == [id \in Candidates(kind) |-> record_embedding[id]]
    IN /\ \A i \in 1..Len(rows) : KindGiven(kind) => rows[i].kind = kind[1]
       /\ \E S \in KnnSets(ofKind, q, limit * OverFetch) :
            LET passing == {id \in S : BoostedSim(id, q) >= MinSimilarity}
            IN /\ RowIds(rows) \subseteq passing
               /\ Len(rows) = Min(limit, Cardinality(passing))
               /\ \A id \in passing \ RowIds(rows), i \in 1..Len(rows) :
                    rows[i].similarity >= BoostedSim(id, q)

(***************************************************************************)
(* Listings filtered by kind and status, over records of several kinds,    *)
(* statuses and times of last update.                                      *)
(***************************************************************************)
SeedRowAt(id, proj, kind, status, updated) ==
  [SeedRow(id, proj, kind, "t1") EXCEPT !.status = status, !.created_at = -2,
                                        !.updated_at = updated]

\* what upsertRecord calls of earlier processes, at times -2, -1 and 0, left behind
SeedMixed ==
  Store(<<SeedRowAt(1, 1, "issue", "open", -2), SeedRowAt(2, 1, "spec", "resolved", -1),
          SeedRowAt(3, 1, "spec", "resolved", 0), SeedRowAt(4, 1, "spec", "open", -1),
          SeedRowAt(5, 2, "spec", "resolved", 0), SeedRowAt(6, 1, "issue", "resolved", -2)>>,
        <<"a", "b", "f", "g", "h", "m">>)

ListFilterArgs ==
  {[kind |-> k, status |-> st, project |-> pr] :
     k \in Opt({"", "all", "spec"}), st \in Opt({"", "all", "resolved"}),
     pr \in Opt({"*", "beta", "gamma"})}

ListRecordsFiltered ==
  /\ frame = Idle
  /\ \E a \in ListFilterArgs :
       \E rows \in listRecords(DB, currentProject, a) :
         lastCall' = [Idle EXCEPT !.op = "listRecords", !.a = a,
                                  !.ret = [NoRet EXCEPT !.rows = rows]]
  /\ UNCHANGED <<tables, currentProject, clock, frame, nwrites, startup>>

InitFilter == InitWith({SeedMixed})
NextFilter == ListRecordsFiltered \/ DeleteRecord
SpecFilter == InitFilter /\ [][NextFilter]_vars

\* the project ids the project argument of a listing stands for
ListedProjects(pr) ==
  IF ~TruthyStr(pr) \/ pr = Some("current") THEN {currentProject.id}
  ELSE IF pr = Some("*") THEN DOMAIN project
  ELSE {i \in DOMAIN project : project[i].name = pr[1]}

\* C21: every row of a listRecords result has the given kind when kind is given
\* and is not "all", and the given status when status is given and is not "all",
\* each whatever the other filter is; an absent or "all" filter excludes nothing;
\* every stored record that passes the project, kind and status restrictions is in
\* the result, once; and the rows are in descending order of updated_at.
C21_ListFilters ==
  lastCall.op = "listRecords" =>
    LET rows == lastCall.ret.rows
        a == lastCall.a
        kindOk(id) == (IsDefined(a.kind) /\ a.kind[1] \notin {"", "all"})
                        => record[id].kind = a.kind[1]
        statusOk(id) == (IsDefined(a.status) /\ a.status[1] \notin {"", "all"})
                          => record[id].status = a.status[1]
    IN /\ \A i \in 1..Len(rows) :
            /\ rows[i].id \in DOMAIN record
            /\ kindOk(rows[i].id) /\ statusOk(rows[i].id)
            /\ rows[i].kind = record[rows[i].id].kind
            /\ rows[i].status = record[rows[i].id].status
            /\ rows[i].updated_at = record[rows[i].id].updated_at
       /\ \A id \in DOMAIN record :
            (record[id].project_id \in ListedProjects(a.project) /\ kindOk(id) /\ statusOk(id))
              => id \in RowIds(rows)
       /\ Len(rows) = Cardinality(RowIds(rows))
       /\ \A i, j \in 1..Len(rows) : i < j => rows[i].updated_at >= rows[j].updated_at

\* C21 witness: a listing with both filters given returned rows of different
\* times of update while a record of another kind with the given status and a
\* record of the given kind with another status are stored
C21_Witness ==
  /\ lastCall.op = "listRecords"
  /\ lastCall.a.kind = Some("spec") /\ lastCall.a.status = Some("resolved")
  /\ \E i, j \in 1..Len(lastCall.ret.rows) :
       lastCall.ret.rows[i].updated_at > lastCall.ret.rows[j].updated_at
  /\ \E x, y \in DOMAIN record \ RowIds(lastCall.ret.rows) :
       /\ record[x].kind # "spec" /\ record[x].status = "resolved"
       /\ record[y].kind = "spec" /\ record[y].status # "resolved"

(***************************************************************************)
(* The current project of a process.                                       *)
(***************************************************************************)
RecordOps == {"upsertRecord", "deleteRecord", "searchRecords", "listRecords"}

\* C22: the current project of a process is set once, by the initDb call that ran
\* the migrations, to the project row it upserted, and is lost only when the
\* process ends; a later initDb call returns without running a migration and
\* without touching the tables or the current project; no upsertRecord,
\* deleteRecord, searchRecords or listRecords call changes the current project.
C22_ProjectResolvedOnce ==
  [][ /\ currentProject' # currentProject
           => \/ /\ frame.op = "initDb" /\ frame.pc = "resume"
                 /\ currentProject = NoProject
                 /\ lastCall'.op = "initDb" /\ lastCall'.path = "full" /\ ~lastCall'.ret.threw
              \/ /\ starts' = starts + 1
                 /\ currentProject' = NoProject
      /\ (frame.op = "initDb" /\ lastCall'.op = "initDb" /\ lastCall'.path = "full"
            /\ ~lastCall'.ret.threw)
           => /\ currentProject' # NoProject
              /\ currentProject'.id \in DOMAIN project'
              /\ project'[currentProject'.id].name = currentProject'.name
              /\ \A i \in DOMAIN project' :
                   project'[i].name = currentProject'.name => i = currentProject'.id
      /\ (lastCall'.op = "initDb" /\ lastCall'.path = "early")
           => /\ ~lastCall'.ret.threw
              /\ UNCHANGED <<tables, currentProject, schema_version, schema, applied>>
      /\ lastCall'.op \in RecordOps => currentProject' = currentProject
    ]_vars

\* C22 witness: in a process whose initDb has resolved the project beta, after a
\* record was written, a further initDb call has returned
C22_Witness ==
  /\ lastCall.op = "initDb" /\ lastCall.path = "early"
  /\ lastCall.a.state = "ready"
  /\ currentProject.name = "beta"
  /\ DOMAIN record # {}
  /\ \E i \in DOMAIN project : project[i].name = "alpha"

(***************************************************************************)
(* The project rows over the starts of several processes.                  *)
(***************************************************************************)
Named(name) == {i \in DOMAIN project : project[i].name = name}

\* C23: the initDb of a process that resolves a name no project has adds exactly
\* one project row, with that name; for a stored name it adds no row, takes that
\* row's id, keeps its created_at and sets its updated_at to the time of the call;
\* every other project row stays as it was, and in every state at most one project
\* has a given name.
C23_ProjectUpsert ==
  /\ [](\A i, j \in DOMAIN project : project[i].name = project[j].name => i = j)
  /\ [][ (frame.op = "initDb" /\ frame.pc = "resume" /\ lastCall'.op = "initDb"
            /\ lastCall'.path = "full" /\ ~lastCall'.ret.threw)
         => LET name == currentProject'.name
                id == currentProject'.id
            IN /\ \A o \in DOMAIN project :
                    o # id => o \in DOMAIN project' /\ project'[o] = project[o]
               /\ project'[id].name = name
               /\ project'[id].updated_at = clock'
               /\ Named(name) = {}
                    => /\ id \notin DOMAIN project
                       /\ DOMAIN project' = DOMAIN project \cup {id}
                       /\ project'[id].created_at = clock'
               /\ Named(name) # {}
                    => /\ Named(name) = {id}
                       /\ DOMAIN project' = DOMAIN project
                       /\ project'[id].created_at = project[id].created_at
                       /\ project'[id].updated_at >= project[id].updated_at
       ]_vars

\* C23 witness: the third process resolved the name of the first after the second
\* had resolved another: the row of the first kept its id and created_at and has a
\* later updated_at
C23_Witness ==
  /\ starts = 3
  /\ currentProject = [id |-> 1, name |-> "alpha"]
  /\ DOMAIN project = {1, 2}
  /\ project[2].name = "beta"
  /\ project[1].created_at = 0
  /\ project[1].updated_at = 2
  /\ project[2].created_at = 1

(***************************************************************************)
(* upsertRecord with a projectId argument, among them ids that name no     *)
(* project, between deletions of records and of projects.                  *)
(***************************************************************************)
ForeignUpsertArgs ==
  {[id |-> i, projectId |-> Some(pr), kind |-> "issue", title |-> "t2", body |-> Undefined,
    status |-> Undefined, embedding |-> e] :
     i \in {Undefined} \cup {Some(j) : j \in IdInputs}, pr \in 1..3, e \in {"a", "f"}}

UpsertForeign ==
  /\ frame = Idle
  /\ nwrites < MaxWrites
  /\ \E a \in ForeignUpsertArgs, now \in Nows :
       \E c \in upsertRecord(DB, a, now, currentProject) :
         /\ Commit(c.db)
         /\ clock' = now
         /\ lastCall' = Ended(c.fr)
  /\ nwrites' = nwrites + 1
  /\ UNCHANGED <<currentProject, frame, startup>>

InitForeign == InitWith({SeedEmpty, SeedSmall})
NextForeign == UpsertForeign \/ UpsertRecordTool \/ DeleteRecord \/ DeleteProject
SpecForeign == InitForeign /\ [][NextForeign]_vars

\* C24: in every state the project_id of every record is the id of a stored
\* project; an upsertRecord call without id for a project id that no project has
\* throws and leaves the records and the embeddings as they were; and no step
\* changes the project_id of a record.
C24_RecordsNameProjects ==
  /\ [](\A id \in DOMAIN record : record[id].project_id \in DOMAIN project)
  /\ [][ /\ (nwrites' = nwrites + 1 /\ IsUpsert(lastCall') /\ ~Truthy(lastCall'.a.id)
               /\ lastCall'.proj \notin DOMAIN project)
              => /\ lastCall'.ret.threw
                 /\ record' = record
                 /\ record_embedding' = record_embedding
         /\ \A id \in DOMAIN record \cap DOMAIN record' :
              record'[id].project_id = record[id].project_id
       ]_vars

\* C24 witness: an upsertRecord without id for project 3, which does not exist,
\* has thrown while records of two projects are stored
C24_Witness ==
  /\ IsUpsert(lastCall) /\ ~Truthy(lastCall.a.id)
  /\ lastCall.proj = 3 /\ 3 \notin DOMAIN project
  /\ lastCall.ret.threw
  /\ lastCall.path = "insert"
  /\ \E x, y \in DOMAIN record : record[x].project_id # record[y].project_id

(***************************************************************************)
(* What an upsertRecord call without id leaves alone.                      *)
(***************************************************************************)
\* C25: an upsertRecord call without id removes no record, changes at most one
\* stored record and embedding, and only those of a record of the call's project
\* and kind, whose id, project_id, kind and created_at stay; when it merges, the
\* target's title, body, status and updated_at become those of the call and its
\* embedding the call's, and nothing else of the target changes.
C25_ImplicitUpsertFrame ==
  [][ (nwrites' = nwrites + 1 /\ IsUpsert(lastCall') /\ ~Truthy(lastCall'.a.id))
      => LET c == lastCall'
             changed ==
               {id \in DOMAIN record : id \notin DOMAIN record' \/ record'[id] # record[id]}
               \cup {id \in DOMAIN record_embedding :
                       \/ id \notin DOMAIN record_embedding'
                       \/ record_embedding'[id] # record_embedding[id]}
         IN /\ Cardinality(changed) <= 1
            /\ DOMAIN record \subseteq DOMAIN record'
            /\ \A id \in changed :
                 /\ id \in DOMAIN record
                 /\ record[id].project_id = c.proj
                 /\ record[id].kind = c.a.kind
                 /\ record'[id].id = id
                 /\ record'[id].project_id = record[id].project_id
                 /\ record'[id].kind = record[id].kind
                 /\ record'[id].created_at = record[id].created_at
            /\ (c.path = "merge" /\ Returned(c))
                 => /\ changed \subseteq {c.target}
                    /\ DOMAIN record' = DOMAIN record
                    /\ record'[c.target] =
                         [record[c.target] EXCEPT !.title = c.a.title, !.body = c.a.body[1],
                                                  !.status = c.a.status[1],
                                                  !.updated_at = c.now]
                    /\ record_embedding'[c.target] = c.a.embedding
    ]_vars

\* C25 witness: a call for project alpha has merged into a record of alpha at a
\* later time while a record of another project with the very same embedding
\* stays as it was stored
C25_Witness ==
  /\ IsUpsert(lastCall) /\ ~Truthy(lastCall.a.id)
  /\ lastCall.path = "merge" /\ Returned(lastCall)
  /\ lastCall.proj = 1
  /\ lastCall.target \in DOMAIN record
  /\ record[lastCall.target].updated_at = 1
  /\ record[lastCall.target].created_at = 0
  /\ \E o \in DOMAIN record \cap DOMAIN record_embedding :
       /\ record[o].project_id # 1
       /\ record_embedding[o] = lastCall.a.embedding
       /\ record[o].updated_at = 0

(***************************************************************************)
(* Reads at any point of a write.  Every statement of upsertRecord and     *)
(* deleteRecord commits on its own (db.js opens no transaction around      *)
(* them), so a reader of the database file (WAL mode, line 33) can run     *)
(* between any two of them and after a process died inside a call.         *)
(* lastCall holds a read only until the next statement of a write runs.    *)
(***************************************************************************)
\* two alpha issues and one of beta, last updated at different times
SeedReads ==
  Store(<<SeedRowAt(1, 1, "issue", "open", -2), SeedRowAt(2, 1, "issue", "open", -1),
          SeedRowAt(3, 2, "issue", "open", -3)>>,
        <<"f", "g", "a">>)

PlainUpsertArgs ==
  {[id |-> i, projectId |-> Undefined, kind |-> "issue", title |-> "t2", body |-> Undefined,
    status |-> Undefined, embedding |-> e] :
     i \in {Undefined, Some(1), Some(sqlite_sequence + 1)}, e \in {"a"}}

UpsertBegins ==
  /\ frame = Idle
  /\ nwrites < MaxWrites
  /\ \E a \in PlainUpsertArgs, now \in Nows :
       /\ frame' = UpsertStart(a, now, currentProject)
       /\ clock' = now
  /\ nwrites' = nwrites + 1
  /\ lastCall' = Idle
  /\ UNCHANGED <<tables, currentProject, startup>>

DeleteBegins ==
  /\ frame = Idle
  /\ nwrites < MaxWrites
  /\ \E id \in IdInputs : frame' = DeleteStart(id)
  /\ nwrites' = nwrites + 1
  /\ lastCall' = Idle
  /\ UNCHANGED <<tables, currentProject, clock, startup>>

StatementRuns ==
  /\ frame.pc \notin {"idle", "done"}
  /\ \E c \in Steps(DB, frame) :
       /\ Commit(c.db)
       /\ frame' = c.fr
  /\ lastCall' = Idle
  /\ UNCHANGED <<currentProject, clock, nwrites, startup>>

ReadGet ==
  /\ \E id \in {1, sqlite_sequence + 1} :
       lastCall' = [Idle EXCEPT !.op = "getRecord", !.a = [id |-> id],
                                !.ret = [NoRet EXCEPT !.rows = getRecord(DB, id)]]
  /\ UNCHANGED <<tables, currentProject, clock, frame, nwrites, startup>>

ReadList ==
  /\ \E a \in {[kind |-> Undefined, status |-> Undefined, project |-> pr] :
                 pr \in {Undefined, Some("*")}} :
       \E rows \in listRecords(DB, currentProject, a) :
         lastCall' = [Idle EXCEPT !.op = "listRecords", !.a = a,
                                  !.ret = [NoRet EXCEPT !.rows = rows]]
  /\ UNCHANGED <<tables, currentProject, clock, frame, nwrites, startup>>

ReadSearch ==
  /\ \E a \in {[embedding |-> "a", kind |-> Undefined, projectId |-> Undefined,
                limit |-> Undefined]} :
       \E rows \in searchRecords(DB, currentProject, a) :
         lastCall' = [Idle EXCEPT !.op = "searchRecords", !.a = a,
                                  !.ret = [NoRet EXCEPT !.rows = rows]]
  /\ UNCHANGED <<tables, currentProject, clock, frame, nwrites, startup>>

InitReads == InitWith({SeedReads})
NextReads ==
  UpsertBegins \/ DeleteBegins \/ StatementRuns \/ Return \/ Restart
    \/ ReadGet \/ ReadList \/ ReadSearch
SpecReads == InitReads /\ [][NextReads]_vars

ReadOps == {"getRecord", "listRecords", "searchRecords"}

\* C26: no read fails, and every row a read returns is a stored record: getRecord
\* returns the record of its id exactly when one is stored, with or without an
\* embedding; listRecords returns every stored record of the listed projects,
\* with or without an embedding; searchRecords returns only records that have an
\* embedding, so neither a record without one nor an embedding without a record;
\* and the id of a record that is gone is never the id of a record again.
C26_ReadsSeeStoredRecords ==
  /\ [](/\ DOMAIN record \subseteq 1..sqlite_sequence
        /\ lastCall.op \in ReadOps =>
             LET rows == lastCall.ret.rows IN
             /\ ~lastCall.ret.threw
             /\ RowIds(rows) \subseteq DOMAIN record
             /\ Len(rows) = Cardinality(RowIds(rows))
             /\ lastCall.op = "getRecord"
                  => /\ lastCall.a.id \in DOMAIN record
                          => /\ Len(rows) = 1
                             /\ rows[1].id = lastCall.a.id
                             /\ rows[1].title = record[lastCall.a.id].title
                     /\ lastCall.a.id \notin DOMAIN record => rows = <<>>
             /\ lastCall.op = "listRecords"
                  => \A id \in DOMAIN record :
                       record[id].project_id \in ListedProjects(lastCall.a.project)
                         => id \in RowIds(rows)
             /\ lastCall.op = "searchRecords"
                  => RowIds(rows) \subseteq DOMAIN record_embedding)
  /\ [][ /\ sqlite_sequence' >= sqlite_sequence
         /\ \A id \in 1..sqlite_sequence : id \notin DOMAIN record => id \notin DOMAIN record'
       ]_vars

\* C26 witness: between the DELETE and the INSERT of the embedding of record 1,
\* with an embedding stored under an id that has no record, a search returned
\* rows, none of them for record 1 or for that id
C26_Witness ==
  /\ lastCall.op = "searchRecords"
  /\ frame.op = "upsertRecord" /\ frame.pc = "insert_embedding" /\ frame.target = 1
  /\ 1 \in DOMAIN record \ DOMAIN record_embedding
  /\ DOMAIN record_embedding \ DOMAIN record # {}
  /\ Len(lastCall.ret.rows) > 0
  /\ RowIds(lastCall.ret.rows) \cap ({1} \cup (DOMAIN record_embedding \ DOMAIN record)) = {}
====
